---- MODULE Spec2Model ----
(***************************************************************************)
(* A model of the financial simulation core of klend-sdk:                   *)
(*   src/src/classes/reserve.ts     (KaminoReserve)                         *)
(*   src/src/classes/obligation.ts  (KaminoObligation)                      *)
(*                                                                          *)
(* Numbers.  decimal.js values are modelled as exact extended rationals     *)
(* [n, d]: d > 0 is the finite value n/d in lowest terms, d = 0 encodes     *)
(* the non-finite values decimal.js produces on a division by zero          *)
(* (n = 1: Infinity, n = -1: -Infinity, n = 0: NaN).  JavaScript numbers    *)
(* (utilisation ratios, APRs, percentages / 100) are modelled as the same   *)
(* exact rationals: rounding is not modelled.  TLC's integers are 32 bit,   *)
(* so the fixed-point scale of a scaled fraction and the slot calendar are  *)
(* scaled down (FRACTION_BITS, SLOTS_PER_DAY, SLOTS_PER_YEAR); every other  *)
(* divisor (10000 bps, 100 pct) is the program's.                           *)
(***************************************************************************)
EXTENDS Integers, Sequences, FiniteSets, TLC

VARIABLES market, obligation, args, op, result

vars == <<market, obligation, args, op, result>>

(***************************************************************************)
(* decimal.js                                                               *)
(***************************************************************************)
Abs(x) == IF x < 0 THEN -x ELSE x

RECURSIVE GCD(_, _)
GCD(a, b) == IF b = 0 THEN a ELSE GCD(b, a % b)

LCM(a, b) == (a \div GCD(a, b)) * b

NaN == [n |-> 0, d |-> 0]

PosInfinity == [n |-> 1, d |-> 0]

NegInfinity == [n |-> -1, d |-> 0]

\* new Decimal(n).div(d) for integers n and d > 0, in lowest terms
Rat(n, d) == LET g == GCD(Abs(n), d) IN [n |-> n \div g, d |-> d \div g]

Dec(n) == [n |-> n, d |-> 1]

isNaN(x) == x.d = 0 /\ x.n = 0

isFinite(x) == x.d > 0

isZero(x) == x.d > 0 /\ x.n = 0

\* the sign field s of a Decimal: 1, -1 (NaN has none; zero is taken as +0)
Sgn(x) == IF x.n < 0 THEN -1 ELSE 1

neg(x) == [n |-> -x.n, d |-> x.d]

\* Decimal.prototype.plus
plus(x, y) ==
  IF isNaN(x) \/ isNaN(y) THEN NaN
  ELSE IF ~isFinite(x) THEN (IF ~isFinite(y) /\ x.n # y.n THEN NaN ELSE x)
  ELSE IF ~isFinite(y) THEN y
  ELSE LET l == LCM(x.d, y.d)
       IN Rat(x.n * (l \div x.d) + y.n * (l \div y.d), l)

\* Decimal.prototype.minus
minus(x, y) == plus(x, neg(y))

\* Decimal.prototype.times: NaN if either is NaN or 0 * Infinity
mul(x, y) ==
  IF isNaN(x) \/ isNaN(y) THEN NaN
  ELSE IF (~isFinite(x) /\ isZero(y)) \/ (~isFinite(y) /\ isZero(x)) THEN NaN
  ELSE IF ~isFinite(x) \/ ~isFinite(y) THEN [n |-> Sgn(x) * Sgn(y), d |-> 0]
  ELSE LET g1 == GCD(Abs(x.n), y.d)
           g2 == GCD(Abs(y.n), x.d)
       IN [n |-> (x.n \div g1) * (y.n \div g2), d |-> (x.d \div g2) * (y.d \div g1)]

\* Decimal.prototype.dividedBy: NaN if either is NaN, or both are Infinity or
\* both 0; 0 if x is 0 or y is Infinity; a signed Infinity if y is 0
div(x, y) ==
  IF isNaN(x) \/ isNaN(y) THEN NaN
  ELSE IF (~isFinite(x) /\ ~isFinite(y)) \/ (isZero(x) /\ isZero(y)) THEN NaN
  ELSE IF isZero(x) \/ ~isFinite(y) THEN Dec(0)
  ELSE IF ~isFinite(x) \/ isZero(y) THEN [n |-> Sgn(x) * Sgn(y), d |-> 0]
  ELSE mul(x, [n |-> Sgn(y) * y.d, d |-> Abs(y.n)])

\* Decimal.prototype.lt / gt / eq / gte / lte: false when either is NaN
lt(x, y) ==
  IF isNaN(x) \/ isNaN(y) THEN FALSE
  ELSE IF ~isFinite(x) THEN x.n < 0 /\ y # x
  ELSE IF ~isFinite(y) THEN y.n > 0
  ELSE LET l == LCM(x.d, y.d)
       IN x.n * (l \div x.d) < y.n * (l \div y.d)

gt(x, y) == lt(y, x)

eq(x, y) == ~isNaN(x) /\ x = y

lte(x, y) == lt(x, y) \/ eq(x, y)

gte(x, y) == lt(y, x) \/ eq(x, y)

\* Decimal.min(...): maxOrMin keeps the running value x, replaces it by an
\* argument y when x.gt(y), and returns NaN as soon as an argument is NaN
RECURSIVE minFrom(_, _)
minFrom(x, rest) ==
  IF rest = <<>> THEN x
  ELSE IF isNaN(Head(rest)) THEN NaN
  ELSE minFrom(IF gt(x, Head(rest)) THEN Head(rest) ELSE x, Tail(rest))

DecimalMin(xs) == minFrom(Head(xs), Tail(xs))

RECURSIVE maxFrom(_, _)
maxFrom(x, rest) ==
  IF rest = <<>> THEN x
  ELSE IF isNaN(Head(rest)) THEN NaN
  ELSE maxFrom(IF lt(x, Head(rest)) THEN Head(rest) ELSE x, Tail(rest))

DecimalMax(xs) == maxFrom(Head(xs), Tail(xs))

\* new Decimal(10).pow(k) for an integer k >= 0
RECURSIVE Pow10(_)
Pow10(k) == IF k = 0 THEN 1 ELSE 10 * Pow10(k - 1)

(***************************************************************************)
(* Decimal.prototype.valueOf: the decimal notation of a value, as the      *)
(* sequence of its characters' code units.  It is what JavaScript's        *)
(* relational operators see of a Decimal.  Fraction digits are produced by *)
(* long division, at most MaxFracDigits of them.                           *)
(***************************************************************************)
MaxFracDigits == 6

RECURSIVE IntDigits(_)
IntDigits(k) == IF k < 10 THEN <<48 + k>> ELSE IntDigits(k \div 10) \o <<48 + (k % 10)>>

RECURSIVE FracDigits(_, _, _)
FracDigits(r, d, k) ==
  IF r = 0 \/ k = 0 THEN <<>>
  ELSE <<48 + ((r * 10) \div d)>> \o FracDigits((r * 10) % d, d, k - 1)

valueOf(x) ==
  IF isNaN(x) THEN <<78, 97, 78>>
  ELSE IF ~isFinite(x)
    THEN (IF x.n < 0 THEN <<45>> ELSE <<>>) \o <<73, 110, 102, 105, 110, 105, 116, 121>>
  ELSE LET a == Abs(x.n)
           f == FracDigits(a % x.d, x.d, MaxFracDigits)
       IN (IF x.n < 0 THEN <<45>> ELSE <<>>)
            \o IntDigits(a \div x.d)
            \o (IF f = <<>> THEN <<>> ELSE <<46>> \o f)

\* the abstract relational comparison s < t of two strings
RECURSIVE StringLess(_, _)
StringLess(s, t) ==
  IF t = <<>> THEN FALSE
  ELSE IF s = <<>> THEN TRUE
  ELSE IF Head(s) # Head(t) THEN Head(s) < Head(t)
  ELSE StringLess(Tail(s), Tail(t))

\* x >= y on two Decimal objects: both are converted with valueOf, which
\* yields strings, and the strings are compared
JsGreaterOrEqual(x, y) == ~StringLess(valueOf(x), valueOf(y))

(***************************************************************************)
(* Fraction: a scaled fraction Sf is the integer value * 2^FRACTION_BITS   *)
(***************************************************************************)
FRACTION_BITS == 2

RECURSIVE Pow2(_)
Pow2(k) == IF k = 0 THEN 1 ELSE 2 * Pow2(k - 1)

FractionToDecimal(sf) == Rat(sf, Pow2(FRACTION_BITS))

(***************************************************************************)
(* Program constants (src/utils, imported at reserve.ts:4-12)               *)
(***************************************************************************)
ONE_HUNDRED_PCT_IN_BPS == 10000

SLOTS_PER_SECOND == 2

\* scaled: the program's day is 172800 slots and its year 365 days
SLOTS_PER_DAY == 4

SLOTS_PER_YEAR == 8

\* the all-zero address that marks an unused deposit or borrow slot
NULL_PUBKEY == 0

isNotNullPubkey(k) == k # NULL_PUBKEY

(***************************************************************************)
(* utils.getBorrowRate: piecewise-linear interpolation over the curve      *)
(* points (u, r).  "error" stands for the thrown error.                    *)
(***************************************************************************)
RECURSIVE interpolateFrom(_, _, _)
interpolateFrom(u, curve, i) ==
  LET p0 == curve[i]
      p1 == curve[i + 1]
  IN IF lte(u, p1[1]) \/ i + 1 = Len(curve)
       THEN IF gte(u, p1[1]) THEN p1[2]
            ELSE IF eq(p1[1], p0[1]) THEN p0[2]
            ELSE plus(p0[2], div(mul(minus(p1[2], p0[2]), minus(u, p0[1])), minus(p1[1], p0[1])))
       ELSE interpolateFrom(u, curve, i + 1)

getBorrowRate(u, curve) ==
  IF curve = <<>> THEN "error"
  ELSE IF lte(u, curve[1][1]) \/ Len(curve) = 1 THEN curve[1][2]
  ELSE interpolateFrom(u, curve, 1)

\* truncateBorrowCurve: the points up to and including the first one at 100%
RECURSIVE truncateBorrowCurve(_)
truncateBorrowCurve(points) ==
  IF points = <<>> THEN <<>>
  ELSE LET p == Head(points)
           pt == <<Rat(p.utilizationRateBps, ONE_HUNDRED_PCT_IN_BPS),
                   Rat(p.borrowRateBps, ONE_HUNDRED_PCT_IN_BPS)>>
       IN IF p.utilizationRateBps = ONE_HUNDRED_PCT_IN_BPS THEN <<pt>>
          ELSE <<pt>> \o truncateBorrowCurve(Tail(points))

(***************************************************************************)
(* KaminoReserve: getters over the snapshot r = [address, state,           *)
(* tokenOraclePrice, recentSlotDurationMs, stats]                          *)
(***************************************************************************)
getBorrowedAmount(r) == FractionToDecimal(r.state.borrowedAmountSf)

getLiquidityAvailableAmount(r) == Dec(r.state.availableAmount)

getOracleMarketPrice(r) == r.tokenOraclePrice

getAccumulatedProtocolFees(r) == FractionToDecimal(r.state.accumulatedProtocolFeesSf)

getAccumulatedReferrerFees(r) == FractionToDecimal(r.state.accumulatedReferrerFeesSf)

getPendingReferrerFees(r) == FractionToDecimal(r.state.pendingReferrerFeesSf)

getBorrowFee(r) == FractionToDecimal(r.state.borrowFeeSf)

getFixedHostInterestRate(r) == Rat(r.state.hostFixedInterestRateBps, 10000)

getTotalSupply(r) ==
  minus(minus(minus(plus(getLiquidityAvailableAmount(r), getBorrowedAmount(r)),
                    getAccumulatedProtocolFees(r)),
              getAccumulatedReferrerFees(r)),
        getPendingReferrerFees(r))

getMintFactor(r) == Dec(Pow10(r.state.mintDecimals))

getLiquidityMint(r) == r.state.mintPubkey

getBorrowFactor(r) == Rat(r.state.borrowFactorPct, 100)

getDepositWithdrawalCapCapacity(r) == Dec(r.state.depositWithdrawalCap.configCapacity)

getDebtWithdrawalCapCapacity(r) == Dec(r.state.debtWithdrawalCap.configCapacity)

\* the elapsed slots without the clamp at 0
slotsElapsedUnclamped(r, slot) == slot - r.state.lastUpdateSlot

\* Math.max(slot - lastUpdate.slot, 0)
slotsElapsedSince(r, slot) ==
  IF slot - r.state.lastUpdateSlot > 0 THEN slot - r.state.lastUpdateSlot ELSE 0

getDepositWithdrawalCapCurrent(r, slot) ==
  IF slotsElapsedSince(r, slot) > SLOTS_PER_DAY THEN Dec(0)
  ELSE Dec(r.state.depositWithdrawalCap.currentTotal)

getDebtWithdrawalCapCurrent(r, slot) ==
  IF slotsElapsedSince(r, slot) > SLOTS_PER_DAY THEN Dec(0)
  ELSE Dec(r.state.debtWithdrawalCap.currentTotal)

calculateUtilizationRatio(r) ==
  IF eq(getTotalSupply(r), Dec(0)) THEN Dec(0)
  ELSE div(getBorrowedAmount(r), getTotalSupply(r))

slotAdjustmentFactor(r) == Rat(1000, SLOTS_PER_SECOND * r.recentSlotDurationMs)

calculateBorrowAPR(r) ==
  mul(getBorrowRate(calculateUtilizationRatio(r), truncateBorrowCurve(r.state.borrowRateCurve)),
      slotAdjustmentFactor(r))

\* approximateCompoundedInterest, elapsedSlots >= 5: the third-order expansion
\* 1 + n*base + n(n-1)/2 * base^2 + n(n-1)(n-2)/6 * base^3
taylorThirdTermOver3(base, elapsedSlots) ==
  LET exp == elapsedSlots
      basePow2 == mul(base, base)
      basePow3 == mul(basePow2, base)
      firstTerm == mul(base, Dec(exp))
      secondTerm == div(mul(mul(basePow2, Dec(exp)), Dec(exp - 1)), Dec(2))
      thirdTerm == div(mul(mul(mul(basePow3, Dec(exp)), Dec(exp - 1)), Dec(exp - 2)), Dec(3))
  IN plus(plus(plus(Dec(1), firstTerm), secondTerm), thirdTerm)

taylorExpansion(base, elapsedSlots) ==
  LET exp == elapsedSlots
      expMinus1 == exp - 1
      expMinus2 == exp - 2
      basePow2 == mul(base, base)
      basePow3 == mul(basePow2, base)
      firstTerm == mul(base, Dec(exp))
      secondTerm == div(mul(mul(basePow2, Dec(exp)), Dec(expMinus1)), Dec(2))
      thirdTerm == div(mul(mul(mul(basePow3, Dec(exp)), Dec(expMinus1)), Dec(expMinus2)), Dec(6))
  IN plus(plus(plus(Dec(1), firstTerm), secondTerm), thirdTerm)

\* a slip in the repeated squaring of case 4: pow2 * (1 + base)
approximateCompoundedInterestCubeFor4(rate, elapsedSlots) ==
  LET base == div(rate, Dec(SLOTS_PER_YEAR))
  IN CASE elapsedSlots = 0 -> Dec(1)
       [] elapsedSlots = 1 -> plus(base, Dec(1))
       [] elapsedSlots = 2 -> mul(plus(base, Dec(1)), plus(base, Dec(1)))
       [] elapsedSlots = 3 -> mul(mul(plus(base, Dec(1)), plus(base, Dec(1))), plus(base, Dec(1)))
       [] elapsedSlots = 4 ->
            LET pow2 == mul(plus(base, Dec(1)), plus(base, Dec(1)))
            IN mul(pow2, plus(base, Dec(1)))
       [] OTHER -> taylorExpansion(base, elapsedSlots)

approximateCompoundedInterest(rate, elapsedSlots) ==
  LET base == div(rate, Dec(SLOTS_PER_YEAR))
  IN CASE elapsedSlots = 0 -> Dec(1)
       [] elapsedSlots = 1 -> plus(base, Dec(1))
       [] elapsedSlots = 2 -> mul(plus(base, Dec(1)), plus(base, Dec(1)))
       [] elapsedSlots = 3 -> mul(mul(plus(base, Dec(1)), plus(base, Dec(1))), plus(base, Dec(1)))
       [] elapsedSlots = 4 ->
            LET pow2 == mul(plus(base, Dec(1)), plus(base, Dec(1)))
            IN mul(pow2, pow2)
       [] OTHER -> taylorExpansion(base, elapsedSlots)

\* the debt and the fees with the referral fees left in the protocol fees
compoundedFeesKeepingReferralFees(r, referralFeeBps, compoundedInterestRate, compoundedFixedRate) ==
  LET protocolTakeRate == Rat(r.state.protocolTakeRatePct, 100)
      referralRate == Rat(referralFeeBps, 10000)
      previousDebt == getBorrowedAmount(r)
      newDebt == mul(previousDebt, compoundedInterestRate)
      fixedHostFee == minus(mul(previousDebt, compoundedFixedRate), previousDebt)
      netNewDebt == minus(minus(newDebt, previousDebt), fixedHostFee)
      variableProtocolFee == mul(netNewDebt, protocolTakeRate)
      absoluteReferralFee == mul(protocolTakeRate, referralRate)
      maxReferralFees == mul(netNewDebt, absoluteReferralFee)
      newAccProtocolFees ==
        plus(plus(variableProtocolFee, fixedHostFee), getAccumulatedProtocolFees(r))
      pendingReferralFees == plus(getPendingReferrerFees(r), maxReferralFees)
  IN [newDebt |-> newDebt,
      netNewDebt |-> netNewDebt,
      variableProtocolFee |-> variableProtocolFee,
      fixedHostFee |-> fixedHostFee,
      absoluteReferralFee |-> absoluteReferralFee,
      maxReferralFees |-> maxReferralFees,
      newAccProtocolFees |-> newAccProtocolFees,
      pendingReferralFees |-> pendingReferralFees]

\* compoundInterest, second part: the debt, the fees and the pending referral
\* fees from the two compounded rates
compoundedDebtAndFees(r, referralFeeBps, compoundedInterestRate, compoundedFixedRate) ==
  LET protocolTakeRate == Rat(r.state.protocolTakeRatePct, 100)
      referralRate == Rat(referralFeeBps, 10000)
      previousDebt == getBorrowedAmount(r)
      newDebt == mul(previousDebt, compoundedInterestRate)
      fixedHostFee == minus(mul(previousDebt, compoundedFixedRate), previousDebt)
      netNewDebt == minus(minus(newDebt, previousDebt), fixedHostFee)
      variableProtocolFee == mul(netNewDebt, protocolTakeRate)
      absoluteReferralFee == mul(protocolTakeRate, referralRate)
      maxReferralFees == mul(netNewDebt, absoluteReferralFee)
      newAccProtocolFees ==
        plus(minus(plus(variableProtocolFee, fixedHostFee), maxReferralFees),
             getAccumulatedProtocolFees(r))
      pendingReferralFees == plus(getPendingReferrerFees(r), maxReferralFees)
  IN [newDebt |-> newDebt,
      netNewDebt |-> netNewDebt,
      variableProtocolFee |-> variableProtocolFee,
      fixedHostFee |-> fixedHostFee,
      absoluteReferralFee |-> absoluteReferralFee,
      maxReferralFees |-> maxReferralFees,
      newAccProtocolFees |-> newAccProtocolFees,
      pendingReferralFees |-> pendingReferralFees]

\* compoundInterest: the two rates compounded over slotsElapsed slots at the
\* current borrow rate, then the debt and the fees
compoundInterest(r, slotsElapsed, referralFeeBps) ==
  compoundedDebtAndFees(r, referralFeeBps,
    approximateCompoundedInterest(plus(calculateBorrowAPR(r), getFixedHostInterestRate(r)),
                                  slotsElapsed),
    approximateCompoundedInterest(getFixedHostInterestRate(r), slotsElapsed))

\* the estimate with the referral share of the compounded interest left out of
\* the pending referrer fees that are subtracted
estimatedDebtAndSupplyKeepingTheReferralShare(r, c) ==
  [totalBorrow |-> c.newDebt,
   totalSupply |->
     minus(minus(minus(plus(getLiquidityAvailableAmount(r), c.newDebt),
                       c.newAccProtocolFees),
                 getAccumulatedReferrerFees(r)),
           getPendingReferrerFees(r))]

\* getEstimatedDebtAndSupply once interest has been compounded into c
estimatedDebtAndSupply(r, c) ==
  [totalBorrow |-> c.newDebt,
   totalSupply |->
     minus(minus(minus(plus(getLiquidityAvailableAmount(r), c.newDebt),
                       c.newAccProtocolFees),
                 getAccumulatedReferrerFees(r)),
           c.pendingReferralFees)]

getEstimatedDebtAndSupply(r, slot, referralFeeBps) ==
  IF slotsElapsedSince(r, slot) = 0
    THEN [totalBorrow |-> getBorrowedAmount(r), totalSupply |-> getTotalSupply(r)]
    ELSE estimatedDebtAndSupply(r,
           compoundInterest(r, slotsElapsedSince(r, slot), referralFeeBps))

getEstimatedTotalSupply(r, slot, referralFeeBps) ==
  getEstimatedDebtAndSupply(r, slot, referralFeeBps).totalSupply

\* getEstimatedAccumulatedProtocolFees once interest has been compounded into c
estimatedAccumulatedProtocolFees(c) ==
  [accumulatedProtocolFees |-> c.newAccProtocolFees,
   compoundedVariableProtocolFee |-> c.variableProtocolFee,
   compoundedFixedHostFee |-> c.fixedHostFee]

getEstimatedAccumulatedProtocolFees(r, slot, referralFeeBps) ==
  IF slotsElapsedSince(r, slot) = 0
    THEN [accumulatedProtocolFees |-> getAccumulatedProtocolFees(r),
          compoundedVariableProtocolFee |-> Dec(0),
          compoundedFixedHostFee |-> Dec(0)]
    ELSE estimatedAccumulatedProtocolFees(
           compoundInterest(r, slotsElapsedSince(r, slot), referralFeeBps))

\* formatReserveData: the statistics cached with a snapshot (the fields the
\* obligation model reads)
formatReserveData(state) ==
  [loanToValuePct |-> Rat(state.loanToValuePct, 100),
   liquidationThreshold |-> Rat(state.liquidationThresholdPct, 100),
   protocolTakeRate |-> Rat(state.protocolTakeRatePct, 100),
   reserveBorrowLimit |-> Dec(state.borrowLimit),
   decimals |-> state.mintDecimals,
   borrowFactor |-> state.borrowFactorPct]

(***************************************************************************)
(* Fixtures: the default reserve of tests/reserve_calcs.test.ts and an     *)
(* empty market and obligation                                             *)
(***************************************************************************)
DefaultReserveState ==
  [mintPubkey |-> 1, mintDecimals |-> 0, mintTotalSupply |-> 0,
   availableAmount |-> 0, borrowedAmountSf |-> 0,
   accumulatedProtocolFeesSf |-> 0, accumulatedReferrerFeesSf |-> 0,
   pendingReferrerFeesSf |-> 0, lastUpdateSlot |-> 0,
   protocolTakeRatePct |-> 0, hostFixedInterestRateBps |-> 0,
   borrowRateCurve |-> <<[utilizationRateBps |-> 0, borrowRateBps |-> 0],
                         [utilizationRateBps |-> 10000, borrowRateBps |-> 10000]>>,
   loanToValuePct |-> 0, liquidationThresholdPct |-> 0, borrowFactorPct |-> 0,
   borrowLimit |-> 0, borrowFeeSf |-> 0, elevationGroups |-> <<>>,
   cumulativeBorrowRateBsf |-> <<>>,
   disableUsageAsCollOutsideEmode |-> 0, utilizationLimitBlockBorrowingAbove |-> 0,
   depositWithdrawalCap |-> [configCapacity |-> 0, currentTotal |-> 0],
   debtWithdrawalCap |-> [configCapacity |-> 0, currentTotal |-> 0],
   borrowLimitOutsideElevationGroup |-> 0, borrowedAmountOutsideElevationGroup |-> 0,
   borrowLimitAgainstThisCollateralInElevationGroup |-> <<>>,
   borrowedAmountsAgainstThisReserveInElevationGroups |-> <<>>]

\* KaminoReserve.initialize: the snapshot with its statistics computed
initialize(address, state, tokenOraclePrice, recentSlotDurationMs) ==
  [address |-> address, state |-> state, tokenOraclePrice |-> tokenOraclePrice,
   recentSlotDurationMs |-> recentSlotDurationMs, stats |-> formatReserveData(state),
   buffer |-> "accountData"]

\* setBuffer
setBuffer(r, buffer) == [r EXCEPT !.buffer = buffer]

\* load, what the connection returns for getAccountInfo and for Reserve.fetch
\* given: the call as it ends, with the reserve as it is then
loadResult(r, tokenOraclePrice, parsedData) ==
  IF r.buffer = "null"
    THEN [kind |-> "error", message |-> "Error requesting account info", reserve |-> r]
  ELSE IF parsedData.kind = "null"
    THEN [kind |-> "error", message |-> "Unable to parse data of reserve", reserve |-> r]
  ELSE [kind |-> "ok",
        reserve |-> [r EXCEPT !.state = parsedData.data,
                              !.tokenOraclePrice = tokenOraclePrice,
                              !.stats = formatReserveData(parsedData.data)]]

\* load that replaces the snapshot and the price and keeps the statistics
loadKeepingTheStatistics(r, tokenOraclePrice, accountInfo, parsedData) ==
  IF parsedData.kind = "null" \/ (r.buffer = "null" /\ accountInfo = "null")
    THEN loadResult(IF r.buffer = "null" THEN setBuffer(r, accountInfo) ELSE r,
                    tokenOraclePrice, parsedData)
    ELSE [kind |-> "ok",
          reserve |-> [r EXCEPT !.state = parsedData.data,
                                !.tokenOraclePrice = tokenOraclePrice]]

load(r, tokenOraclePrice, accountInfo, parsedData) ==
  loadResult(IF r.buffer = "null" THEN setBuffer(r, accountInfo) ELSE r,
             tokenOraclePrice, parsedData)

EmptyMarket == [reserves |-> <<>>, elevationGroups |-> <<>>, referralFeeBps |-> 0]

NoObligation == [state |-> "none"]

NoArgs == [rate |-> Dec(0), elapsedSlots |-> 0, slot |-> 0, referralFeeBps |-> 0, mint |-> 0]

(***************************************************************************)
(* SpecInterest: approximateCompoundedInterest as a pure function          *)
(***************************************************************************)
MaxRate == 6

MaxElapsedSlots == 6

InitInterest ==
  /\ market = EmptyMarket
  /\ obligation = NoObligation
  /\ \E a \in -2 .. MaxRate, n \in 0 .. MaxElapsedSlots :
       args = [NoArgs EXCEPT !.rate = Dec(a), !.elapsedSlots = n]
  /\ op = "none"
  /\ result = "none"

ApproximateCompoundedInterest ==
  /\ op = "none"
  /\ op' = "approximateCompoundedInterest"
  /\ result' = approximateCompoundedInterest(args.rate, args.elapsedSlots)
  /\ UNCHANGED <<market, obligation, args>>

NextInterest == ApproximateCompoundedInterest

SpecInterest == InitInterest /\ [][NextInterest]_vars

\* (1 + base)^n by n multiplications
RECURSIVE TruePower(_, _)
TruePower(x, n) == IF n = 0 THEN Dec(1) ELSE mul(x, TruePower(x, n - 1))

\* the third-order expansion over the common denominator q^3, base = p/q
ClosedFormTaylor(p, q, n) ==
  Rat(q * q * q + n * p * q * q
        + ((n * (n - 1)) \div 2) * p * p * q
        + ((n * (n - 1) * (n - 2)) \div 6) * p * p * p,
      q * q * q)

\* C1: for rate >= 0 and elapsedSlots n >= 5 the result is exactly
\* 1 + n*base + n(n-1)/2*base^2 + n(n-1)(n-2)/6*base^3, base = rate/SLOTS_PER_YEAR,
\* and for base > 0 it is strictly smaller than the true power (1+base)^n
C1_TaylorExpansion ==
  (op = "approximateCompoundedInterest" /\ args.elapsedSlots >= 5 /\ args.rate.n >= 0) =>
    LET p == args.rate.n
        q == args.rate.d * SLOTS_PER_YEAR
        n == args.elapsedSlots
    IN /\ result = ClosedFormTaylor(p, q, n)
       /\ p > 0 => lt(result, TruePower(Rat(p + q, q), n))

C1_Witness ==
  /\ op = "approximateCompoundedInterest"
  /\ args.elapsedSlots = 6
  /\ args.rate = Dec(3)

\* C2: for every rate and elapsedSlots in 0..4 the result equals the power
\* (1 + rate/SLOTS_PER_YEAR)^elapsedSlots computed by repeated multiplication
C2_SmallPowers ==
  (op = "approximateCompoundedInterest" /\ args.elapsedSlots \in 0 .. 4) =>
    result = TruePower(Rat(args.rate.n + args.rate.d * SLOTS_PER_YEAR,
                           args.rate.d * SLOTS_PER_YEAR),
                       args.elapsedSlots)

C2_Witness ==
  /\ op = "approximateCompoundedInterest"
  /\ args.elapsedSlots = 4
  /\ args.rate = Dec(-1)

RECURSIVE Reverse(_)
Reverse(seq) == IF seq = <<>> THEN <<>> ELSE Reverse(Tail(seq)) \o <<Head(seq)>>

\* the width of a limb of a big fraction (64 in the program, scaled as
\* FRACTION_BITS is)
LIMB_BITS == 4

\* rates.reduce((prev, curr) => prev.iadd(curr).ishrn(64), new BN(0)) over the
\* limbs from the last to the first
RECURSIVE addThenShift(_, _)
addThenShift(rates, prev) ==
  IF rates = <<>> THEN prev
  ELSE addThenShift(Tail(rates), (prev + Head(rates)) \div Pow2(LIMB_BITS))

\* KaminoReserve.getCumulativeBorrowRate: the limbs are copied before they are
\* reversed
reserveCumulativeBorrowRate(r) ==
  FractionToDecimal(addThenShift(Reverse(r.state.cumulativeBorrowRateBsf), 0))

getEstimatedCumulativeBorrowRate(r, currentSlot) ==
  mul(reserveCumulativeBorrowRate(r),
      approximateCompoundedInterest(calculateBorrowAPR(r), slotsElapsedSince(r, currentSlot)))

(***************************************************************************)
(* SpecReserve: the estimators of one reserve snapshot, for a slot and a   *)
(* referral fee supplied by the caller                                     *)
(***************************************************************************)
MaxSlot == 8

FlatCurve ==
  <<[utilizationRateBps |-> 0, borrowRateBps |-> 5000],
    [utilizationRateBps |-> 10000, borrowRateBps |-> 5000],
    [utilizationRateBps |-> 10000, borrowRateBps |-> 5000]>>

LinearCurve ==
  <<[utilizationRateBps |-> 0, borrowRateBps |-> 0],
    [utilizationRateBps |-> 10000, borrowRateBps |-> 10000],
    [utilizationRateBps |-> 10000, borrowRateBps |-> 10000]>>

ReserveSnapshots ==
  {[DefaultReserveState EXCEPT
      !.availableAmount = avail, !.borrowedAmountSf = borrowed,
      !.accumulatedProtocolFeesSf = accFees, !.accumulatedReferrerFeesSf = refFees,
      !.pendingReferrerFeesSf = pending, !.lastUpdateSlot = last,
      !.protocolTakeRatePct = take, !.hostFixedInterestRateBps = host,
      !.borrowRateCurve = curve,
      !.cumulativeBorrowRateBsf = <<Pow2(FRACTION_BITS), 0, 0, 0>>] :
     avail \in {0, 4}, borrowed \in {0, 8, 16}, accFees \in {0, 8}, refFees \in {0, 8},
     pending \in {0, 8}, last \in {0, 2}, take \in {0, 50, 100}, host \in {0, 5000},
     curve \in {FlatCurve, LinearCurve}}

InitReserve ==
  /\ \E st \in ReserveSnapshots :
       market = [EmptyMarket EXCEPT !.reserves = <<initialize(1, st, Dec(1), 500)>>]
  /\ obligation = NoObligation
  /\ \E slot \in 0 .. MaxSlot, fee \in {0, 5000} :
       args = [NoArgs EXCEPT !.slot = slot, !.referralFeeBps = fee]
  /\ op = "none"
  /\ result = "none"

GetEstimatedDebtAndSupply ==
  /\ op = "none"
  /\ op' = "getEstimatedDebtAndSupply"
  /\ result' = getEstimatedDebtAndSupply(market.reserves[1], args.slot, args.referralFeeBps)
  /\ UNCHANGED <<market, obligation, args>>

GetEstimatedAccumulatedProtocolFees ==
  /\ op = "none"
  /\ op' = "getEstimatedAccumulatedProtocolFees"
  /\ result' = getEstimatedAccumulatedProtocolFees(market.reserves[1], args.slot, args.referralFeeBps)
  /\ UNCHANGED <<market, obligation, args>>

GetEstimatedTotalSupply ==
  /\ op = "none"
  /\ op' = "getEstimatedTotalSupply"
  /\ result' = getEstimatedTotalSupply(market.reserves[1], args.slot, args.referralFeeBps)
  /\ UNCHANGED <<market, obligation, args>>

GetEstimatedCumulativeBorrowRate ==
  /\ op = "none"
  /\ op' = "getEstimatedCumulativeBorrowRate"
  /\ result' = getEstimatedCumulativeBorrowRate(market.reserves[1], args.slot)
  /\ UNCHANGED <<market, obligation, args>>

NextReserve ==
  \/ GetEstimatedDebtAndSupply
  \/ GetEstimatedAccumulatedProtocolFees
  \/ GetEstimatedTotalSupply
  \/ GetEstimatedCumulativeBorrowRate

SpecReserve == InitReserve /\ [][NextReserve]_vars

\* C3: for every slot <= the snapshot's lastUpdate slot the estimated total
\* supply is getTotalSupply(), the estimated total borrow is getBorrowedAmount(),
\* and the estimated accumulated protocol fees are the stored ones with both
\* compounded fee components 0
C3_NoAccrualWithoutElapsedSlots ==
  LET r == market.reserves[1]
  IN args.slot <= r.state.lastUpdateSlot =>
       /\ op = "getEstimatedDebtAndSupply" =>
            /\ result.totalSupply = getTotalSupply(r)
            /\ result.totalBorrow = getBorrowedAmount(r)
       /\ op = "getEstimatedAccumulatedProtocolFees" =>
            /\ result.accumulatedProtocolFees = getAccumulatedProtocolFees(r)
            /\ result.compoundedVariableProtocolFee = Dec(0)
            /\ result.compoundedFixedHostFee = Dec(0)

\* a slot in the past of a snapshot that carries debt, fees and a host rate
C3_Witness ==
  LET r == market.reserves[1]
  IN /\ op = "getEstimatedDebtAndSupply"
     /\ args.slot < r.state.lastUpdateSlot
     /\ r.state.borrowedAmountSf > 0
     /\ r.state.hostFixedInterestRateBps > 0
     /\ r.state.accumulatedProtocolFeesSf > 0

\* C4: with slotsElapsed > 0 the returned accumulatedProtocolFees equal
\* compoundedVariableProtocolFee + compoundedFixedHostFee
\*   - netNewDebt * protocolTakeRate * (referralFeeBps / 10000) + getAccumulatedProtocolFees(),
\* netNewDebt being the estimated debt less the previous debt and the fixed host
\* fee; with referralFeeBps = 0 and no stored fees they are the sum of the two
\* compounded fees
C4_AccumulatedProtocolFees ==
  LET r == market.reserves[1]
  IN (op = "getEstimatedAccumulatedProtocolFees" /\ args.slot > r.state.lastUpdateSlot) =>
       LET newDebt == getEstimatedDebtAndSupply(r, args.slot, args.referralFeeBps).totalBorrow
           netNewDebt == minus(minus(newDebt, getBorrowedAmount(r)), result.compoundedFixedHostFee)
           referral == mul(mul(netNewDebt, Rat(r.state.protocolTakeRatePct, 100)),
                           Rat(args.referralFeeBps, 10000))
       IN /\ result.accumulatedProtocolFees =
               plus(minus(plus(result.compoundedVariableProtocolFee, result.compoundedFixedHostFee),
                          referral),
                    getAccumulatedProtocolFees(r))
          /\ (args.referralFeeBps = 0 /\ r.state.accumulatedProtocolFeesSf = 0) =>
               result.accumulatedProtocolFees =
                 plus(result.compoundedFixedHostFee, result.compoundedVariableProtocolFee)

\* interest has accrued and a referral fee is taken from a positive net new debt
C4_Witness ==
  LET r == market.reserves[1]
  IN /\ op = "getEstimatedAccumulatedProtocolFees"
     /\ args.slot > r.state.lastUpdateSlot + 4
     /\ args.referralFeeBps > 0
     /\ r.state.protocolTakeRatePct = 50
     /\ r.state.hostFixedInterestRateBps > 0
     /\ r.state.accumulatedProtocolFeesSf > 0
     /\ gt(result.compoundedVariableProtocolFee, Dec(0))
     /\ gt(result.compoundedFixedHostFee, Dec(0))

\* ---------------------------------------------------------------------------
\* KaminoMarket: the reserves, the elevation groups, the lookups
\* ---------------------------------------------------------------------------

\* the value of a lookup that finds nothing
undefined == [address |-> NULL_PUBKEY]

isDefined(x) == x # undefined

\* the reserve of the market whose liquidity mint is the given one
getReserveByMint(m, mint) ==
  LET found == {i \in DOMAIN m.reserves : getLiquidityMint(m.reserves[i]) = mint}
  IN IF found = {} THEN undefined
     ELSE m.reserves[CHOOSE i \in found : \A j \in found : i <= j]

\* the reserve of the market at the given address
getReserveByAddress(m, address) ==
  LET found == {i \in DOMAIN m.reserves : m.reserves[i].address = address}
  IN IF found = {} THEN undefined
     ELSE m.reserves[CHOOSE i \in found : \A j \in found : i <= j]

\* market.state.elevationGroups[id - 1], the array being 0-based in the source
getElevationGroup(m, id) == m.elevationGroups[id]

\* array.includes(x) that finds 0 in every array
includesOrIsZero(seq, x) == x = 0 \/ \E i \in DOMAIN seq : seq[i] = x

\* array.includes(x)
includes(seq, x) == \E i \in DOMAIN seq : seq[i] = x

\* ---------------------------------------------------------------------------
\* KaminoObligation: the positions and the statistics computed at construction
\* ---------------------------------------------------------------------------

\* valueOrZero: a value that is not a finite number becomes 0
valueOrZero(x) == IF isFinite(x) THEN x ELSE Dec(0)

getBorrowAmount(borrow) == FractionToDecimal(borrow.borrowedAmountSf)

RECURSIVE SumSeq(_)
SumSeq(seq) == IF seq = <<>> THEN 0 ELSE Head(seq) + SumSeq(Tail(seq))

\* the static getCumulativeBorrowRate: the limbs are added up, the shift by 64
\* bits is computed and dropped, and the sum is read as a fraction
getCumulativeBorrowRate(borrow) == FractionToDecimal(SumSeq(borrow.cumulativeBorrowRateBsf))

\* the borrow factor of a reserve for an obligation in the given elevation group
getBorrowFactorForReserve(reserve, elevationGroup) ==
  IF elevationGroup # 0 THEN Dec(1) ELSE Rat(reserve.stats.borrowFactor, 100)

NoPositions == [a \in {} |-> undefined]

\* calculateObligationDeposits with the oracle price, from deposit i on
RECURSIVE depositsFrom(_, _, _, _, _)
depositsFrom(m, ob, collateralExchangeRates, i, acc) ==
  IF acc.kind = "error" \/ i > Len(ob.deposits) THEN acc
  ELSE LET deposit == ob.deposits[i]
           reserve == getReserveByAddress(m, deposit.depositReserve)
       IN IF ~isNotNullPubkey(deposit.depositReserve)
            THEN depositsFrom(m, ob, collateralExchangeRates, i + 1, acc)
          ELSE IF ~isDefined(reserve) THEN [kind |-> "error"]
          ELSE
            LET loanToValue ==
                  IF ob.elevationGroup # 0
                    THEN Rat(m.elevationGroups[ob.elevationGroup].ltvPct, 100)
                    ELSE reserve.stats.loanToValuePct
                liqThreshold ==
                  IF ob.elevationGroup # 0
                    THEN Rat(m.elevationGroups[ob.elevationGroup].liquidationThresholdPct, 100)
                    ELSE reserve.stats.liquidationThreshold
                exchangeRate == collateralExchangeRates[reserve.address]
                supplyAmount == div(Dec(deposit.depositedAmount), exchangeRate)
                depositValueUsd ==
                  div(mul(supplyAmount, getOracleMarketPrice(reserve)), getMintFactor(reserve))
                position == [reserveAddress |-> reserve.address,
                             mintAddress |-> getLiquidityMint(reserve),
                             amount |-> supplyAmount,
                             marketValueRefreshed |-> depositValueUsd]
            IN depositsFrom(m, ob, collateralExchangeRates, i + 1,
                 [kind |-> "ok",
                  deposits |-> [a \in DOMAIN acc.deposits \cup {reserve.address} |->
                                  IF a = reserve.address THEN position ELSE acc.deposits[a]],
                  userTotalDeposit |-> plus(acc.userTotalDeposit, depositValueUsd),
                  userTotalCollateralDeposit |->
                    IF ~isZero(loanToValue)
                      THEN plus(acc.userTotalCollateralDeposit, depositValueUsd)
                      ELSE acc.userTotalCollateralDeposit,
                  borrowLimit |-> plus(acc.borrowLimit, mul(depositValueUsd, loanToValue)),
                  borrowLiquidationLimit |->
                    plus(acc.borrowLiquidationLimit, mul(depositValueUsd, liqThreshold))])

\* calculateObligationDeposits: the value returned after the loop
depositStatsOf(r) ==
  IF r.kind = "error" THEN r
  ELSE [kind |-> "ok", deposits |-> r.deposits, userTotalDeposit |-> r.userTotalDeposit,
        userTotalCollateralDeposit |-> r.userTotalCollateralDeposit,
        borrowLimit |-> r.borrowLimit,
        liquidationLtv |-> valueOrZero(div(r.borrowLiquidationLimit, r.userTotalDeposit)),
        borrowLiquidationLimit |-> r.borrowLiquidationLimit]

calculateObligationDeposits(m, ob, collateralExchangeRates) ==
  depositStatsOf(
    depositsFrom(m, ob, collateralExchangeRates, 1,
      [kind |-> "ok", deposits |-> NoPositions, userTotalDeposit |-> Dec(0),
       userTotalCollateralDeposit |-> Dec(0), borrowLimit |-> Dec(0),
       borrowLiquidationLimit |-> Dec(0)]))

\* calculateObligationBorrows with the oracle price, from borrow i on
RECURSIVE borrowsFrom(_, _, _, _, _)
borrowsFrom(m, ob, cumulativeBorrowRates, i, acc) ==
  IF acc.kind = "error" \/ i > Len(ob.borrows) THEN acc
  ELSE LET borrow == ob.borrows[i]
           reserve == getReserveByAddress(m, borrow.borrowReserve)
       IN IF ~isNotNullPubkey(borrow.borrowReserve)
            THEN borrowsFrom(m, ob, cumulativeBorrowRates, i + 1, acc)
          ELSE IF ~isDefined(reserve) THEN [kind |-> "error"]
          ELSE
            LET obligationCumulativeBorrowRate == getCumulativeBorrowRate(borrow)
                cumulativeBorrowRate == cumulativeBorrowRates[reserve.address]
                borrowAmount == div(mul(getBorrowAmount(borrow), cumulativeBorrowRate),
                                    obligationCumulativeBorrowRate)
                borrowValueUsd ==
                  div(mul(borrowAmount, getOracleMarketPrice(reserve)), getMintFactor(reserve))
                borrowFactor == getBorrowFactorForReserve(reserve, ob.elevationGroup)
                borrowValueBorrowFactorAdjustedUsd == mul(borrowValueUsd, borrowFactor)
                position == [reserveAddress |-> reserve.address,
                             mintAddress |-> getLiquidityMint(reserve),
                             amount |-> borrowAmount,
                             marketValueRefreshed |-> borrowValueUsd]
            IN borrowsFrom(m, ob, cumulativeBorrowRates, i + 1,
                 [kind |-> "ok",
                  borrows |-> [a \in DOMAIN acc.borrows \cup {reserve.address} |->
                                 IF a = reserve.address THEN position ELSE acc.borrows[a]],
                  userTotalBorrow |-> plus(acc.userTotalBorrow, borrowValueUsd),
                  userTotalBorrowBorrowFactorAdjusted |->
                    plus(acc.userTotalBorrowBorrowFactorAdjusted,
                         borrowValueBorrowFactorAdjustedUsd),
                  positions |-> IF ~eq(borrowAmount, Dec(0)) THEN acc.positions + 1
                                ELSE acc.positions])

calculateObligationBorrows(m, ob, cumulativeBorrowRates) ==
  borrowsFrom(m, ob, cumulativeBorrowRates, 1,
    [kind |-> "ok", borrows |-> NoPositions, userTotalBorrow |-> Dec(0),
     userTotalBorrowBorrowFactorAdjusted |-> Dec(0), positions |-> 0])

\* the non-zero entries of the reserves' elevationGroups arrays, in the order
\* the two loops visit them
RECURSIVE elevationGroupEntries(_)
elevationGroupEntries(reserves) ==
  IF reserves = <<>> THEN <<>>
  ELSE SelectSeq(Head(reserves).state.elevationGroups, LAMBDA g : g # 0)
         \o elevationGroupEntries(Tail(reserves))

\* the keys of the map of counts, in the order of their insertion
RECURSIVE keysInInsertionOrder(_)
keysInInsertionOrder(entries) ==
  IF entries = <<>> THEN <<>>
  ELSE <<Head(entries)>>
         \o SelectSeq(keysInInsertionOrder(Tail(entries)), LAMBDA g : g # Head(entries))

\* the count the map holds for a group: one per entry that names it
elevationGroupsCount(entries, group) == Cardinality({i \in DOMAIN entries : entries[i] = group})

\* getElevationGroupsForReserves: the groups counted as often as there are reserves
getElevationGroupsForReserves(reserves) ==
  SelectSeq(keysInInsertionOrder(elevationGroupEntries(reserves)),
            LAMBDA group :
              elevationGroupsCount(elevationGroupEntries(reserves), group) = Len(reserves))

\* the reserve addresses of the slots that are not null, each once, in the
\* order of the slots
RECURSIVE distinctReserves(_, _)
distinctReserves(addresses, acc) ==
  IF addresses = <<>> THEN acc
  ELSE distinctReserves(Tail(addresses),
         IF isNotNullPubkey(Head(addresses)) /\ ~includes(acc, Head(addresses))
           THEN Append(acc, Head(addresses)) ELSE acc)

\* the reserves the obligation state has a deposit or a borrow in
reservesOfObligation(m, ob) ==
  LET addresses ==
        distinctReserves([i \in DOMAIN ob.borrows |-> ob.borrows[i].borrowReserve],
          distinctReserves([i \in DOMAIN ob.deposits |-> ob.deposits[i].depositReserve],
                           <<>>))
  IN [i \in DOMAIN addresses |-> getReserveByAddress(m, addresses[i])]

\* getElevationGroups: the groups the obligation qualifies for
getElevationGroups(o, m) == getElevationGroupsForReserves(reservesOfObligation(m, o.state))

\* calculatePositions: the positions and the refreshed statistics from the
\* common elevation groups and the deposit and the borrow statistics
positionsOf(commonElevationGroups, depositStatsOraclePrice, borrowStatsOraclePrice) ==
  IF depositStatsOraclePrice.kind = "error" \/ borrowStatsOraclePrice.kind = "error"
    THEN [kind |-> "error"]
  ELSE
    LET netAccountValueScopeRefreshed ==
          minus(depositStatsOraclePrice.userTotalDeposit,
                borrowStatsOraclePrice.userTotalBorrow)
    IN [kind |-> "ok",
        deposits |-> depositStatsOraclePrice.deposits,
        borrows |-> borrowStatsOraclePrice.borrows,
        refreshedStats |->
          [borrowLimit |-> depositStatsOraclePrice.borrowLimit,
           borrowLiquidationLimit |-> depositStatsOraclePrice.borrowLiquidationLimit,
           userTotalBorrow |-> borrowStatsOraclePrice.userTotalBorrow,
           userTotalBorrowBorrowFactorAdjusted |->
             borrowStatsOraclePrice.userTotalBorrowBorrowFactorAdjusted,
           userTotalDeposit |-> depositStatsOraclePrice.userTotalDeposit,
           liquidationLtv |-> depositStatsOraclePrice.liquidationLtv,
           borrowUtilization |->
             div(borrowStatsOraclePrice.userTotalBorrowBorrowFactorAdjusted,
                 depositStatsOraclePrice.borrowLimit),
           netAccountValue |-> netAccountValueScopeRefreshed,
           leverage |-> div(depositStatsOraclePrice.userTotalDeposit,
                            netAccountValueScopeRefreshed),
           loanToValue |-> div(borrowStatsOraclePrice.userTotalBorrowBorrowFactorAdjusted,
                               depositStatsOraclePrice.userTotalDeposit),
           potentialElevationGroupUpdate |-> commonElevationGroups]]

calculatePositions(m, ob, collateralExchangeRates, cumulativeBorrowRates) ==
  positionsOf(getElevationGroups([state |-> ob], m),
              calculateObligationDeposits(m, ob, collateralExchangeRates),
              calculateObligationBorrows(m, ob, cumulativeBorrowRates))

\* the obligation state after the construction has read the borrows: the limbs
\* of each borrow it visited are left reversed
stateAfterConstruction(ob) ==
  [ob EXCEPT !.borrows =
     [i \in DOMAIN ob.borrows |->
        IF isNotNullPubkey(ob.borrows[i].borrowReserve)
          THEN [ob.borrows[i] EXCEPT !.cumulativeBorrowRateBsf = Reverse(@)]
          ELSE ob.borrows[i]]]

\* the fields the constructor assigns from the computed positions
obligationOf(obligationAddress, ob, p) ==
  IF p.kind = "error" THEN [kind |-> "error"]
  ELSE [kind |-> "ok", obligationAddress |-> obligationAddress,
        state |-> stateAfterConstruction(ob),
        deposits |-> p.deposits, borrows |-> p.borrows,
        refreshedStats |-> p.refreshedStats]

\* new KaminoObligation(market, address, state, rates, rates)
KaminoObligation(m, obligationAddress, ob, collateralExchangeRates, cumulativeBorrowRates) ==
  obligationOf(obligationAddress, ob,
    calculatePositions(m, ob, collateralExchangeRates, cumulativeBorrowRates))

getDepositByReserve(o, address) ==
  IF address \in DOMAIN o.deposits THEN o.deposits[address] ELSE undefined

getBorrowByReserve(o, address) ==
  IF address \in DOMAIN o.borrows THEN o.borrows[address] ELSE undefined

\* getMaxWithdrawAmount without the return of the whole deposit at zero debt
getMaxWithdrawAmountWithoutZeroDebtReturn(o, m, tokenMint, slot) ==
  LET reserve == getReserveByMint(m, tokenMint)
      userDepositPosition == getDepositByReserve(o, reserve.address)
      userDepositPositionAmount == userDepositPosition.amount
      elevationGroupActivated ==
        includes(reserve.state.elevationGroups, o.state.elevationGroup)
          /\ o.state.elevationGroup # 0
      reserveMaxLtv ==
        IF elevationGroupActivated
          THEN Rat(getElevationGroup(m, o.state.elevationGroup).ltvPct, 100)
          ELSE reserve.stats.loanToValuePct
      maxWithdrawValue ==
        IF isZero(reserveMaxLtv) THEN userDepositPositionAmount
        ELSE mul(div(minus(o.refreshedStats.borrowLimit,
                           o.refreshedStats.userTotalBorrowBorrowFactorAdjusted),
                     reserveMaxLtv),
                 Rat(995, 1000))
      maxWithdrawAmount ==
        mul(div(maxWithdrawValue, getOracleMarketPrice(reserve)), getMintFactor(reserve))
      reserveAvailableLiquidity == getLiquidityAvailableAmount(reserve)
      withdrawalCapRemained ==
        minus(getDepositWithdrawalCapCapacity(reserve),
              getDepositWithdrawalCapCurrent(reserve, slot))
  IN IF ~isDefined(reserve) THEN [kind |-> "error", message |-> "Reserve not found"]
     ELSE IF ~isDefined(userDepositPosition)
       THEN [kind |-> "error", message |-> "Deposit reserve not found"]
     ELSE IF JsGreaterOrEqual(o.refreshedStats.userTotalBorrowBorrowFactorAdjusted,
                              o.refreshedStats.borrowLimit)
       THEN [kind |-> "ok", value |-> Dec(0)]
     ELSE [kind |-> "ok",
           value |-> DecimalMax(<<Dec(0),
                                  DecimalMin(<<userDepositPositionAmount, maxWithdrawAmount,
                                               reserveAvailableLiquidity,
                                               withdrawalCapRemained>>)>>)]

\* getMaxWithdrawAmount: the amount of the deposit in the reserve of the mint
\* that can be withdrawn at the slot
getMaxWithdrawAmount(o, m, tokenMint, slot) ==
  LET reserve == getReserveByMint(m, tokenMint)
      userDepositPosition == getDepositByReserve(o, reserve.address)
      userDepositPositionAmount == userDepositPosition.amount
      elevationGroupActivated ==
        includes(reserve.state.elevationGroups, o.state.elevationGroup)
          /\ o.state.elevationGroup # 0
      reserveMaxLtv ==
        IF elevationGroupActivated
          THEN Rat(getElevationGroup(m, o.state.elevationGroup).ltvPct, 100)
          ELSE reserve.stats.loanToValuePct
      maxWithdrawValue ==
        IF isZero(reserveMaxLtv) THEN userDepositPositionAmount
        ELSE mul(div(minus(o.refreshedStats.borrowLimit,
                           o.refreshedStats.userTotalBorrowBorrowFactorAdjusted),
                     reserveMaxLtv),
                 Rat(995, 1000))
      maxWithdrawAmount ==
        mul(div(maxWithdrawValue, getOracleMarketPrice(reserve)), getMintFactor(reserve))
      reserveAvailableLiquidity == getLiquidityAvailableAmount(reserve)
      withdrawalCapRemained ==
        minus(getDepositWithdrawalCapCapacity(reserve),
              getDepositWithdrawalCapCurrent(reserve, slot))
  IN IF ~isDefined(reserve) THEN [kind |-> "error", message |-> "Reserve not found"]
     ELSE IF ~isDefined(userDepositPosition)
       THEN [kind |-> "error", message |-> "Deposit reserve not found"]
     ELSE IF eq(o.refreshedStats.userTotalBorrowBorrowFactorAdjusted, Dec(0))
       THEN [kind |-> "ok", value |-> userDepositPositionAmount]
     ELSE IF JsGreaterOrEqual(o.refreshedStats.userTotalBorrowBorrowFactorAdjusted,
                              o.refreshedStats.borrowLimit)
       THEN [kind |-> "ok", value |-> Dec(0)]
     ELSE [kind |-> "ok",
           value |-> DecimalMax(<<Dec(0),
                                  DecimalMin(<<userDepositPositionAmount, maxWithdrawAmount,
                                               reserveAvailableLiquidity,
                                               withdrawalCapRemained>>)>>)]

\* getMaxBorrowAmount of the obligation: the amount of the mint that can still
\* be borrowed at the slot
getMaxBorrowAmount(o, m, tokenMint, slot) ==
  LET reserve == getReserveByMint(m, tokenMint)
      elevationGroupActivated ==
        includes(reserve.state.elevationGroups, o.state.elevationGroup)
          /\ o.state.elevationGroup # 0
      reserveBorrowFactor == getBorrowFactor(reserve)
      borrowFactor == IF elevationGroupActivated THEN Dec(1) ELSE reserveBorrowFactor
      maxObligationBorrowPower ==
        mul(div(div(minus(o.refreshedStats.borrowLimit,
                          o.refreshedStats.userTotalBorrowBorrowFactorAdjusted),
                    borrowFactor),
                getOracleMarketPrice(reserve)),
            getMintFactor(reserve))
      reserveAvailableAmount == getLiquidityAvailableAmount(reserve)
      reserveBorrowCapRemained ==
        IF reserve.state.disableUsageAsCollOutsideEmode = 1 /\ ~elevationGroupActivated
          THEN Dec(0)
          ELSE minus(reserve.stats.reserveBorrowLimit, getBorrowedAmount(reserve))
      maxBorrowAmount ==
        DecimalMin(<<maxObligationBorrowPower, reserveAvailableAmount,
                     reserveBorrowCapRemained>>)
      debtWithdrawalCap ==
        minus(getDebtWithdrawalCapCapacity(reserve), getDebtWithdrawalCapCurrent(reserve, slot))
      maxBorrowAmountCapped ==
        IF gt(getDebtWithdrawalCapCapacity(reserve), Dec(0))
          THEN DecimalMin(<<maxBorrowAmount, debtWithdrawalCap>>)
          ELSE maxBorrowAmount
      originationFeeRate ==
        div(getBorrowFee(reserve), plus(getBorrowFee(reserve), Dec(1)))
      borrowFee == mul(maxBorrowAmountCapped, originationFeeRate)
  IN IF ~isDefined(reserve) THEN [kind |-> "error", message |-> "Reserve not found"]
     ELSE [kind |-> "ok",
           value |-> DecimalMax(<<Dec(0), minus(maxBorrowAmountCapped, borrowFee)>>)]

\* ---------------------------------------------------------------------------
\* SpecWithdraw: getMaxWithdrawAmount on obligations with two collateral
\* reserves (addresses 1 and 2) and one debt reserve (address 3)
\* ---------------------------------------------------------------------------

\* one slot within the day of the last update and one after it
QuerySlots == {0, SLOTS_PER_DAY + 1}

\* the cumulative borrow rate 1 as the limbs of a big fraction
UnitRateBsf == <<Pow2(FRACTION_BITS), 0, 0, 0>>

MarketElevationGroups ==
  <<[id |-> 1, ltvPct |-> 80, liquidationThresholdPct |-> 90, debtReserve |-> 3]>>

UnitRates == [a \in {1, 2, 3} |-> Dec(1)]

WithdrawReserves ==
  { <<initialize(1, [DefaultReserveState EXCEPT
                       !.mintPubkey = 11, !.mintDecimals = scale[1],
                       !.availableAmount = avail, !.loanToValuePct = ltv,
                       !.liquidationThresholdPct = 60, !.borrowFactorPct = 100,
                       !.elevationGroups = groups, !.depositWithdrawalCap = cap],
                 Dec(scale[2]), 500),
      initialize(2, [DefaultReserveState EXCEPT
                       !.mintPubkey = 12, !.availableAmount = 100,
                       !.loanToValuePct = 50, !.liquidationThresholdPct = 60,
                       !.borrowFactorPct = 100, !.elevationGroups = <<0, 0>>],
                 Dec(1), 500),
      initialize(3, [DefaultReserveState EXCEPT
                       !.mintPubkey = 13, !.availableAmount = 100,
                       !.borrowedAmountSf = 40, !.borrowFactorPct = bf,
                       !.borrowLimit = 1000, !.elevationGroups = <<1, 0>>],
                 Dec(1), 500)>> :
      scale \in {<<0, 1>>, <<1, 2>>}, avail \in {3, 100}, ltv \in {0, 50},
      groups \in {<<0, 0>>, <<1, 0>>},
      cap \in {[configCapacity |-> 0, currentTotal |-> 0],
               [configCapacity |-> 100, currentTotal |-> 98]},
      bf \in {100, 200} }

WithdrawObligationStates ==
  { [elevationGroup |-> eg,
     deposits |-> <<[depositReserve |-> IF a1 = 0 THEN NULL_PUBKEY ELSE 1,
                     depositedAmount |-> a1],
                    [depositReserve |-> IF a2 = 0 THEN NULL_PUBKEY ELSE 2,
                     depositedAmount |-> a2]>>,
     borrows |-> <<[borrowReserve |-> IF b < 0 THEN NULL_PUBKEY ELSE 3,
                    borrowedAmountSf |-> IF b < 0 THEN 0 ELSE b,
                    cumulativeBorrowRateBsf |-> UnitRateBsf]>>] :
      eg \in {0, 1}, a1 \in {0, 4, 20, 40}, a2 \in {0, 19, 20}, b \in {-1, 0, 8, 20, 40} }

InitWithdraw ==
  /\ \E rs \in WithdrawReserves :
       market = [reserves |-> rs, elevationGroups |-> MarketElevationGroups,
                 referralFeeBps |-> 0]
  /\ \E ob \in WithdrawObligationStates :
       obligation = KaminoObligation(market, 7, ob, UnitRates, UnitRates)
  /\ obligation.kind = "ok"
  /\ \E mint \in {11, 13, 99}, slot \in QuerySlots :
       args = [NoArgs EXCEPT !.mint = mint, !.slot = slot]
  /\ op = "none"
  /\ result = [kind |-> "none"]

GetMaxWithdrawAmount ==
  /\ op = "none"
  /\ op' = "getMaxWithdrawAmount"
  /\ result' = getMaxWithdrawAmount(obligation, market, args.mint, args.slot)
  /\ UNCHANGED <<market, obligation, args>>

NextWithdraw == GetMaxWithdrawAmount

SpecWithdraw == InitWithdraw /\ [][NextWithdraw]_vars

\* the maximum LTV that applies to the reserve of the queried mint: that of the
\* obligation's elevation group if the reserve lists it, else the reserve's own
EffectiveMaxLtv ==
  LET reserve == getReserveByMint(market, args.mint)
      eg == obligation.state.elevationGroup
  IN IF eg # 0 /\ includes(reserve.state.elevationGroups, eg)
       THEN Rat(market.elevationGroups[eg].ltvPct, 100)
       ELSE Rat(reserve.state.loanToValuePct, 100)

\* the query found the reserve and the deposit position and returned a value
WithdrawReturned == op = "getMaxWithdrawAmount" /\ result.kind = "ok"

\* C5: with a non-zero borrow-factor-adjusted debt that is numerically at or
\* above the borrow limit, getMaxWithdrawAmount returns 0, whatever the maximum
\* LTV of the reserve
C5_NoWithdrawAtOrOverBorrowLimit ==
  (/\ WithdrawReturned
   /\ ~isZero(obligation.refreshedStats.userTotalBorrowBorrowFactorAdjusted)
   /\ gte(obligation.refreshedStats.userTotalBorrowBorrowFactorAdjusted,
          obligation.refreshedStats.borrowLimit))
    => result.value = Dec(0)

\* C6: with 0 < debt < borrow limit and a maximum LTV above 0, the result is
\* max(0, min(deposited amount, ((borrowLimit - debt) / maxLtv * 0.995) / price
\* * mintFactor, available liquidity, cap capacity - cap current(slot)))
C6_WithdrawFormula ==
  LET stats == obligation.refreshedStats
      debt == stats.userTotalBorrowBorrowFactorAdjusted
      reserve == getReserveByMint(market, args.mint)
      value == mul(div(minus(stats.borrowLimit, debt), EffectiveMaxLtv), Rat(199, 200))
      amount == mul(div(value, reserve.tokenOraclePrice), Dec(Pow10(reserve.state.mintDecimals)))
      capLeft == minus(Dec(reserve.state.depositWithdrawalCap.configCapacity),
                       getDepositWithdrawalCapCurrent(reserve, args.slot))
  IN (/\ WithdrawReturned
      /\ gt(debt, Dec(0)) /\ lt(debt, stats.borrowLimit)
      /\ gt(EffectiveMaxLtv, Dec(0)))
       => result.value =
            DecimalMax(<<Dec(0), DecimalMin(<<obligation.deposits[reserve.address].amount,
                                              amount, Dec(reserve.state.availableAmount),
                                              capLeft>>)>>)

\* C7: with a borrow-factor-adjusted debt of exactly 0 and a deposit position
\* in the reserve of the mint, the result is the whole deposited amount; with
\* no reserve for the mint, or no deposit position in it, the call throws
C7_WholeDepositWithoutDebt ==
  op = "getMaxWithdrawAmount" =>
    LET found == {i \in DOMAIN market.reserves : market.reserves[i].state.mintPubkey = args.mint}
    IN IF found = {} THEN result.kind = "error"
       ELSE \A i \in found :
              IF market.reserves[i].address \notin DOMAIN obligation.deposits
                THEN result.kind = "error"
                ELSE isZero(obligation.refreshedStats.userTotalBorrowBorrowFactorAdjusted)
                       => result = [kind |-> "ok",
                                    value |-> obligation.deposits[market.reserves[i].address].amount]

\* a debt-free obligation got a positive deposit back in full, short of the
\* limit the LTV formula would give
C7_Witness ==
  /\ WithdrawReturned
  /\ isZero(obligation.refreshedStats.userTotalBorrowBorrowFactorAdjusted)
  /\ 3 \in DOMAIN obligation.borrows
  /\ gt(obligation.refreshedStats.borrowLimit, Dec(0))
  /\ gt(result.value, Dec(0))
  /\ result.value = obligation.deposits[1].amount

\* ---------------------------------------------------------------------------
\* SpecBorrow: getMaxBorrowAmount of an obligation with collateral in reserve
\* 1 and debt in the queried reserve 2 and in reserve 3
\* ---------------------------------------------------------------------------

BorrowReserves ==
  { <<initialize(1, [DefaultReserveState EXCEPT
                       !.mintPubkey = 11, !.availableAmount = 100,
                       !.loanToValuePct = 50, !.liquidationThresholdPct = 60,
                       !.borrowFactorPct = 100, !.elevationGroups = <<1, 0>>],
                 Dec(1), 500),
      initialize(2, [DefaultReserveState EXCEPT
                       !.mintPubkey = 12, !.mintDecimals = scale[1],
                       !.availableAmount = avail, !.borrowedAmountSf = 80,
                       !.borrowFactorPct = bf, !.borrowLimit = limit,
                       !.borrowFeeSf = fee, !.elevationGroups = groups,
                       !.disableUsageAsCollOutsideEmode = disable,
                       !.utilizationLimitBlockBorrowingAbove = ceiling,
                       !.debtWithdrawalCap = cap],
                 Dec(scale[2]), 500),
      initialize(3, [DefaultReserveState EXCEPT
                       !.mintPubkey = 13, !.availableAmount = 100,
                       !.borrowedAmountSf = 40, !.borrowFactorPct = 100,
                       !.borrowLimit = 1000, !.elevationGroups = <<0, 0>>],
                 Dec(1), 500)>> :
      scale \in {<<0, 1>>, <<1, 2>>}, avail \in {0, 6, 100}, bf \in {0, 100, 200},
      limit \in {25, 1000}, fee \in {0, Pow2(FRACTION_BITS)},
      groups \in {<<0, 0>>, <<1, 0>>}, disable \in {0, 1}, ceiling \in {0, 50},
      cap \in {[configCapacity |-> 0, currentTotal |-> 0],
               [configCapacity |-> 10, currentTotal |-> 4]} }

BorrowObligationStates ==
  { [elevationGroup |-> eg,
     deposits |-> <<[depositReserve |-> IF a1 = 0 THEN NULL_PUBKEY ELSE 1,
                     depositedAmount |-> a1]>>,
     borrows |-> <<[borrowReserve |-> IF b2 = 0 THEN NULL_PUBKEY ELSE 2,
                    borrowedAmountSf |-> b2, cumulativeBorrowRateBsf |-> UnitRateBsf],
                   [borrowReserve |-> IF b3 = 0 THEN NULL_PUBKEY ELSE 3,
                    borrowedAmountSf |-> b3, cumulativeBorrowRateBsf |-> UnitRateBsf]>>] :
      eg \in {0, 1}, a1 \in {0, 20, 40}, b2 \in {0, 20}, b3 \in {0, 40} }

InitBorrow ==
  /\ \E rs \in BorrowReserves :
       market = [reserves |-> rs, elevationGroups |-> MarketElevationGroups,
                 referralFeeBps |-> 0]
  /\ \E ob \in BorrowObligationStates :
       obligation = KaminoObligation(market, 7, ob, UnitRates, UnitRates)
  /\ obligation.kind = "ok"
  /\ \E q \in ({12} \X QuerySlots) \cup {<<99, 0>>} :
       args = [NoArgs EXCEPT !.mint = q[1], !.slot = q[2]]
  /\ op = "none"
  /\ result = [kind |-> "none"]

GetMaxBorrowAmount ==
  /\ op = "none"
  /\ op' = "getMaxBorrowAmount"
  /\ result' = getMaxBorrowAmount(obligation, market, args.mint, args.slot)
  /\ UNCHANGED <<market, obligation, args>>

NextBorrow == GetMaxBorrowAmount

SpecBorrow == InitBorrow /\ [][NextBorrow]_vars

\* the query found the reserve of the mint and returned a value
BorrowReturned == op = "getMaxBorrowAmount" /\ result.kind = "ok"

\* the reserve lists the non-zero elevation group of the obligation
GroupActive(reserve) ==
  /\ obligation.state.elevationGroup # 0
  /\ \E i \in DOMAIN reserve.state.elevationGroups :
       reserve.state.elevationGroups[i] = obligation.state.elevationGroup

\* C8: the result is max(0, m - m * f / (1 + f)), m being the least of the
\* obligation's headroom turned into tokens, the available liquidity, the rest
\* of the reserve's borrow limit (0 if the reserve is disabled outside e-mode
\* and no group is active) and, with a debt cap capacity above 0, the rest of
\* the cap; and the result is 0 when the reserve has no available liquidity
C8_MaxBorrowFormula ==
  BorrowReturned =>
    LET reserve == getReserveByMint(market, args.mint)
        stats == obligation.refreshedStats
        f == Rat(reserve.state.borrowFeeSf, Pow2(FRACTION_BITS))
        borrowFactor == IF GroupActive(reserve) THEN Dec(1)
                        ELSE Rat(reserve.state.borrowFactorPct, 100)
        power == mul(div(div(minus(stats.borrowLimit,
                                   stats.userTotalBorrowBorrowFactorAdjusted),
                             borrowFactor),
                         reserve.tokenOraclePrice),
                     Dec(Pow10(reserve.state.mintDecimals)))
        limitLeft == IF reserve.state.disableUsageAsCollOutsideEmode = 1 /\ ~GroupActive(reserve)
                       THEN Dec(0)
                       ELSE minus(Dec(reserve.state.borrowLimit),
                                  Rat(reserve.state.borrowedAmountSf, Pow2(FRACTION_BITS)))
        capLeft == minus(Dec(reserve.state.debtWithdrawalCap.configCapacity),
                         getDebtWithdrawalCapCurrent(reserve, args.slot))
        m == DecimalMin(<<power, Dec(reserve.state.availableAmount), limitLeft>>
                          \o (IF reserve.state.debtWithdrawalCap.configCapacity > 0
                                THEN <<capLeft>> ELSE <<>>))
    IN /\ result.value = DecimalMax(<<Dec(0), minus(m, div(mul(m, f), plus(Dec(1), f)))>>)
       /\ reserve.state.availableAmount = 0 => result.value = Dec(0)

\* C9: with a utilization ceiling configured on the debt reserve, the result is
\* 0 when the utilization is above the ceiling and at most
\* (ceiling - utilization) * total supply otherwise
C9_UtilizationCeiling ==
  BorrowReturned =>
    LET reserve == getReserveByMint(market, args.mint)
        ceiling == Rat(reserve.state.utilizationLimitBlockBorrowingAbove, 100)
        utilization == calculateUtilizationRatio(reserve)
    IN gt(ceiling, Dec(0)) =>
         IF gt(utilization, ceiling) THEN result.value = Dec(0)
         ELSE lte(result.value, mul(minus(ceiling, utilization), getTotalSupply(reserve)))

\* the market with the state of the reserve at the address replaced
withReserveState(m, address, state) ==
  [m EXCEPT !.reserves =
     [i \in DOMAIN m.reserves |->
        IF m.reserves[i].address = address
          THEN initialize(address, state, m.reserves[i].tokenOraclePrice,
                          m.reserves[i].recentSlotDurationMs)
          ELSE m.reserves[i]]]

\* C10: for the same obligation, market and slot, a larger borrowLimit of the
\* debt reserve gives a result at least as large, and a larger borrowFactor of
\* the debt reserve (from 0 on) gives a result at most as large
C10_MaxBorrowMonotone ==
  BorrowReturned =>
    LET reserve == getReserveByMint(market, args.mint)
    IN /\ \A more \in {1, 100} :
            lte(result.value,
                getMaxBorrowAmount(obligation,
                  withReserveState(market, reserve.address,
                    [reserve.state EXCEPT !.borrowLimit = @ + more]),
                  args.mint, args.slot).value)
       /\ \A more \in {50, 100} :
            lte(getMaxBorrowAmount(obligation,
                  withReserveState(market, reserve.address,
                    [reserve.state EXCEPT !.borrowFactorPct = @ + more]),
                  args.mint, args.slot).value,
                result.value)

\* ---------------------------------------------------------------------------
\* KaminoObligation: the simulated actions
\* ---------------------------------------------------------------------------

\* positiveOrZero: a negative value becomes 0
positiveOrZero(x) == IF lt(x, Dec(0)) THEN Dec(0) ELSE x

\* the copy of the position of the map whose mint is the given one, the last
\* one the loop over the map's values meets
positionWithMint(positions, mint) ==
  LET found == {a \in DOMAIN positions : positions[a].mintAddress = mint}
  IN IF found = {} THEN undefined
     ELSE positions[CHOOSE a \in found : \A b \in found : b <= a]

\* the reserve of the supplied map whose liquidity mint is the given one, the
\* last one the loop over the map's values meets
reserveWithMint(reserves, mint) ==
  LET found == {i \in DOMAIN reserves : getLiquidityMint(reserves[i]) = mint}
  IN IF found = {} THEN undefined
     ELSE reserves[CHOOSE i \in found : \A j \in found : j <= i]

\* a position that is created for a reserve the obligation has none in
newPosition(reserve, mint) ==
  [reserveAddress |-> reserve.address, mintAddress |-> mint,
   amount |-> Dec(0), marketValueRefreshed |-> Dec(0)]

\* map.set(position.reserveAddress, position) on the copy of the old map
setPosition(positions, position) ==
  [a \in DOMAIN positions \cup {position.reserveAddress} |->
     IF a = position.reserveAddress THEN position ELSE positions[a]]

\* what a simulation returns, together with the objects it was handed as they
\* are after the call: the statistics and the positions it writes are the
\* copies made on entry ({ ...oldStats }, new PubkeyHashMap([...entries]),
\* { ...oldPosition }), so the objects handed in are as they were
simulationAliasingItsArguments(oldStats, oldPositions, newStats, newPositions) ==
  [kind |-> "ok", stats |-> newStats, positions |-> newPositions,
   oldStats |-> newStats, oldPositions |-> newPositions]

simulationOf(oldStats, oldPositions, newStats, newPositions) ==
  [kind |-> "ok", stats |-> newStats, positions |-> newPositions,
   oldStats |-> oldStats, oldPositions |-> oldPositions]

\* a simulation that throws: nothing has been written yet
simulationError(oldStats, oldPositions, message) ==
  [kind |-> "error", message |-> message,
   oldStats |-> oldStats, oldPositions |-> oldPositions]

\* calculateSimulatedBorrow once the reserve and the position are found
simulatedBorrow(o, oldStats, oldBorrows, borrowAmount, mint, reserve, borrowPosition) ==
  LET borrowFactor ==
        IF o.state.elevationGroup # 0 THEN Dec(1) ELSE Rat(reserve.stats.borrowFactor, 100)
      borrowValueUSD ==
        div(mul(borrowAmount, getOracleMarketPrice(reserve)), getMintFactor(reserve))
      borrowValueBorrowFactorAdjustedUSD == mul(borrowValueUSD, borrowFactor)
  IN simulationOf(oldStats, oldBorrows,
       [oldStats EXCEPT
          !.userTotalBorrow = positiveOrZero(plus(@, borrowValueUSD)),
          !.userTotalBorrowBorrowFactorAdjusted =
             positiveOrZero(plus(@, borrowValueBorrowFactorAdjustedUSD))],
       setPosition(oldBorrows,
         [borrowPosition EXCEPT
            !.amount = positiveOrZero(plus(@, borrowAmount)),
            !.mintAddress = mint,
            !.marketValueRefreshed = positiveOrZero(plus(@, borrowValueUSD))]))

calculateSimulatedBorrow(o, oldStats, oldBorrows, borrowAmount, mint, reserves) ==
  IF ~isDefined(reserveWithMint(reserves, mint))
    THEN simulationError(oldStats, oldBorrows, "No reserve found for mint")
  ELSE IF ~includes(reserveWithMint(reserves, mint).state.elevationGroups,
                    o.state.elevationGroup)
    THEN simulationError(oldStats, oldBorrows,
           "User would have to downgrade the elevation group in order to be able to borrow from this reserve")
  ELSE simulatedBorrow(o, oldStats, oldBorrows, borrowAmount, mint,
         reserveWithMint(reserves, mint),
         IF isDefined(positionWithMint(oldBorrows, mint))
           THEN positionWithMint(oldBorrows, mint)
           ELSE newPosition(reserveWithMint(reserves, mint), mint))

\* calculateSimulatedDeposit once the reserve, the position and the limits that
\* apply are found
simulatedDeposit(oldStats, oldDeposits, amount, mint, reserve, depositPosition, loanToValue, liqThreshold) ==
  LET supplyAmount == amount
      supplyAmountMultiplierUSD ==
        div(mul(supplyAmount, getOracleMarketPrice(reserve)),
            Dec(Pow10(reserve.stats.decimals)))
      newBorrowLiquidationLimit ==
        positiveOrZero(plus(oldStats.borrowLiquidationLimit,
                            mul(supplyAmountMultiplierUSD, liqThreshold)))
      newUserTotalDeposit ==
        positiveOrZero(plus(oldStats.userTotalDeposit, supplyAmountMultiplierUSD))
  IN simulationOf(oldStats, oldDeposits,
       [oldStats EXCEPT
          !.userTotalDeposit = newUserTotalDeposit,
          !.borrowLimit =
             positiveOrZero(plus(@, mul(supplyAmountMultiplierUSD, loanToValue))),
          !.borrowLiquidationLimit = newBorrowLiquidationLimit,
          !.liquidationLtv = valueOrZero(div(newBorrowLiquidationLimit, newUserTotalDeposit))],
       setPosition(oldDeposits,
         [depositPosition EXCEPT
            !.amount = positiveOrZero(plus(@, amount)),
            !.mintAddress = mint,
            !.marketValueRefreshed =
               positiveOrZero(plus(@,
                 div(mul(supplyAmount, getOracleMarketPrice(reserve)),
                     getMintFactor(reserve))))]))

calculateSimulatedDeposit(o, oldStats, oldDeposits, amount, mint, reserves, m) ==
  IF ~isDefined(reserveWithMint(reserves, mint))
    THEN simulationError(oldStats, oldDeposits, "No reserve found for mint")
  ELSE IF ~includes(reserveWithMint(reserves, mint).state.elevationGroups,
                    o.state.elevationGroup)
    THEN simulationError(oldStats, oldDeposits,
           "User would have to downgrade the elevation group in order to be able to deposit in this reserve")
  ELSE simulatedDeposit(oldStats, oldDeposits, amount, mint,
         reserveWithMint(reserves, mint),
         IF isDefined(positionWithMint(oldDeposits, mint))
           THEN positionWithMint(oldDeposits, mint)
           ELSE newPosition(reserveWithMint(reserves, mint), mint),
         IF o.state.elevationGroup # 0
           THEN Rat(getElevationGroup(m, o.state.elevationGroup).ltvPct, 100)
           ELSE reserveWithMint(reserves, mint).stats.loanToValuePct,
         IF o.state.elevationGroup # 0
           THEN Rat(getElevationGroup(m, o.state.elevationGroup).liquidationThresholdPct, 100)
           ELSE reserveWithMint(reserves, mint).stats.liquidationThreshold)

\* the three statistics as plain quotients
recomputedStatsAsPlainQuotients(newStats) ==
  [newStats EXCEPT
     !.netAccountValue = minus(newStats.userTotalDeposit, newStats.userTotalBorrow),
     !.loanToValue =
        div(newStats.userTotalBorrowBorrowFactorAdjusted, newStats.userTotalDeposit),
     !.leverage =
        div(newStats.userTotalDeposit,
            minus(newStats.userTotalDeposit, newStats.userTotalBorrow))]

\* the three statistics getSimulatedObligationStats computes anew at its end
recomputedStats(newStats) ==
  [newStats EXCEPT
     !.netAccountValue = minus(newStats.userTotalDeposit, newStats.userTotalBorrow),
     !.loanToValue =
        valueOrZero(div(newStats.userTotalBorrowBorrowFactorAdjusted,
                        newStats.userTotalDeposit)),
     !.leverage =
        valueOrZero(div(newStats.userTotalDeposit,
                        minus(newStats.userTotalDeposit, newStats.userTotalBorrow)))]

\* getSimulatedObligationStats throws; this is the obligation after the call
simulationThrown(this, message) == [kind |-> "error", message |-> message, this |-> this]

\* getSimulatedObligationStats returns; this is the obligation after the call
simulationReturned(this, newStats, newDeposits, newBorrows) ==
  [kind |-> "ok", stats |-> recomputedStats(newStats),
   deposits |-> newDeposits, borrows |-> newBorrows, this |-> this]

\* the cases 'deposit' and 'withdraw', the deposit simulated
simulatedDepositOnly(o, leg) ==
  IF leg.kind = "error"
    THEN simulationThrown([o EXCEPT !.refreshedStats = leg.oldStats,
                                    !.deposits = leg.oldPositions], leg.message)
    ELSE simulationReturned([o EXCEPT !.refreshedStats = leg.oldStats,
                                      !.deposits = leg.oldPositions],
                            leg.stats, leg.positions, o.borrows)

\* the cases 'borrow' and 'repay', the borrow simulated
simulatedBorrowOnly(o, leg) ==
  IF leg.kind = "error"
    THEN simulationThrown([o EXCEPT !.refreshedStats = leg.oldStats,
                                    !.borrows = leg.oldPositions], leg.message)
    ELSE simulationReturned([o EXCEPT !.refreshedStats = leg.oldStats,
                                      !.borrows = leg.oldPositions],
                            leg.stats, o.deposits, leg.positions)

\* the second leg of 'depositAndBorrow', both legs simulated
simulatedBorrowAfterDeposit(o, depositLeg, borrowLeg) ==
  IF borrowLeg.kind = "error"
    THEN simulationThrown([o EXCEPT !.refreshedStats = depositLeg.oldStats,
                                    !.deposits = depositLeg.oldPositions,
                                    !.borrows = borrowLeg.oldPositions], borrowLeg.message)
    ELSE simulationReturned([o EXCEPT !.refreshedStats = depositLeg.oldStats,
                                      !.deposits = depositLeg.oldPositions,
                                      !.borrows = borrowLeg.oldPositions],
                            borrowLeg.stats, depositLeg.positions, borrowLeg.positions)

\* the case 'depositAndBorrow', the deposit simulated
simulatedDepositAndBorrow(o, depositLeg, amount, mint, reserves) ==
  IF depositLeg.kind = "error"
    THEN simulationThrown([o EXCEPT !.refreshedStats = depositLeg.oldStats,
                                    !.deposits = depositLeg.oldPositions],
                          depositLeg.message)
    ELSE simulatedBorrowAfterDeposit(o, depositLeg,
           calculateSimulatedBorrow(o, depositLeg.stats, o.borrows, amount, mint, reserves))

\* the second leg of 'repayAndWithdraw', both legs simulated
simulatedDepositAfterRepay(o, borrowLeg, depositLeg) ==
  IF depositLeg.kind = "error"
    THEN simulationThrown([o EXCEPT !.refreshedStats = borrowLeg.oldStats,
                                    !.borrows = borrowLeg.oldPositions,
                                    !.deposits = depositLeg.oldPositions],
                          depositLeg.message)
    ELSE simulationReturned([o EXCEPT !.refreshedStats = borrowLeg.oldStats,
                                      !.borrows = borrowLeg.oldPositions,
                                      !.deposits = depositLeg.oldPositions],
                            depositLeg.stats, depositLeg.positions, borrowLeg.positions)

\* the case 'repayAndWithdraw', the repayment simulated: the deposit leg is
\* handed the amount as it came
simulatedRepayAndWithdraw(o, borrowLeg, amount, mint, reserves, m) ==
  IF borrowLeg.kind = "error"
    THEN simulationThrown([o EXCEPT !.refreshedStats = borrowLeg.oldStats,
                                    !.borrows = borrowLeg.oldPositions],
                          borrowLeg.message)
    ELSE simulatedDepositAfterRepay(o, borrowLeg,
           calculateSimulatedDeposit(o, borrowLeg.stats, o.deposits, amount, mint,
                                     reserves, m))

getSimulatedObligationStats(o, amount, action, mint, m, reserves) ==
  CASE action = "deposit" ->
         simulatedDepositOnly(o,
           calculateSimulatedDeposit(o, o.refreshedStats, o.deposits, amount, mint,
                                     reserves, m))
    [] action = "borrow" ->
         simulatedBorrowOnly(o,
           calculateSimulatedBorrow(o, o.refreshedStats, o.borrows, amount, mint, reserves))
    [] action = "repay" ->
         simulatedBorrowOnly(o,
           calculateSimulatedBorrow(o, o.refreshedStats, o.borrows, neg(amount), mint,
                                    reserves))
    [] action = "withdraw" ->
         simulatedDepositOnly(o,
           calculateSimulatedDeposit(o, o.refreshedStats, o.deposits, neg(amount), mint,
                                     reserves, m))
    [] action = "depositAndBorrow" ->
         simulatedDepositAndBorrow(o,
           calculateSimulatedDeposit(o, o.refreshedStats, o.deposits, amount, mint,
                                     reserves, m),
           amount, mint, reserves)
    [] action = "repayAndWithdraw" ->
         simulatedRepayAndWithdraw(o,
           calculateSimulatedBorrow(o, o.refreshedStats, o.borrows, neg(amount), mint,
                                    reserves),
           amount, mint, reserves, m)
    [] OTHER -> simulationThrown(o, "Invalid action type for getSimulatedObligationStats")

\* ---------------------------------------------------------------------------
\* KaminoObligation: the getters and the estimators
\* ---------------------------------------------------------------------------

\* loanToValue(): 0 without deposits
loanToValue(o) ==
  IF eq(o.refreshedStats.userTotalDeposit, Dec(0)) THEN Dec(0)
  ELSE div(o.refreshedStats.userTotalBorrowBorrowFactorAdjusted,
           o.refreshedStats.userTotalDeposit)

\* the number of slots of the account data, in use or not
getNumberOfPositionsCountingSlots(o) == Len(o.state.deposits) + Len(o.state.borrows)

getNumberOfPositions(o) == Cardinality(DOMAIN o.deposits) + Cardinality(DOMAIN o.borrows)

\* the rate of a reserve without collateral supply or without liquidity supply
INITIAL_COLLATERAL_RATE == Dec(1)

getEstimatedCollateralExchangeRate(r, slot, referralFeeBps) ==
  IF r.state.mintTotalSupply = 0 \/ isZero(getEstimatedTotalSupply(r, slot, referralFeeBps))
    THEN INITIAL_COLLATERAL_RATE
    ELSE div(Dec(r.state.mintTotalSupply), getEstimatedTotalSupply(r, slot, referralFeeBps))

\* the map from the reserve of each deposit slot that is not null to its
\* estimated collateral exchange rate
getCollateralExchangeRatesForObligation(m, ob, slot) ==
  LET addresses ==
        distinctReserves([i \in DOMAIN ob.deposits |-> ob.deposits[i].depositReserve], <<>>)
  IN [a \in {addresses[i] : i \in DOMAIN addresses} |->
        getEstimatedCollateralExchangeRate(getReserveByAddress(m, a), slot, m.referralFeeBps)]

\* the map from the reserve of each borrow slot that is not null to its
\* estimated cumulative borrow rate
getCumulativeBorrowRatesForObligation(m, ob, slot) ==
  LET addresses ==
        distinctReserves([i \in DOMAIN ob.borrows |-> ob.borrows[i].borrowReserve], <<>>)
  IN [a \in {addresses[i] : i \in DOMAIN addresses} |->
        getEstimatedCumulativeBorrowRate(getReserveByAddress(m, a), slot)]

getRatesForObligation(m, ob, slot) ==
  [collateralExchangeRates |-> getCollateralExchangeRatesForObligation(m, ob, slot),
   cumulativeBorrowRates |-> getCumulativeBorrowRatesForObligation(m, ob, slot)]

\* the borrow entry after the static getCumulativeBorrowRate has read it:
\* value.reverse() reverses the limbs of the entry itself
borrowAfterGetCumulativeBorrowRate(borrow) ==
  [borrow EXCEPT !.cumulativeBorrowRateBsf = Reverse(@)]

\* estimateObligationInterestRate: the value it returns
estimateObligationInterestRate(reserve, borrow, currentSlot) ==
  IF gt(getEstimatedCumulativeBorrowRate(reserve, currentSlot), getCumulativeBorrowRate(borrow))
    THEN div(getEstimatedCumulativeBorrowRate(reserve, currentSlot),
             getCumulativeBorrowRate(borrow))
    ELSE Dec(0)

(***************************************************************************)
(* SpecObligation: a constructed obligation, its simulations, its getters  *)
(* and its estimators, called in any order                                 *)
(***************************************************************************)
ObligationReserves ==
  { <<initialize(1, [DefaultReserveState EXCEPT
                       !.mintPubkey = 11, !.mintDecimals = scale[1],
                       !.availableAmount = 100, !.loanToValuePct = 50,
                       !.liquidationThresholdPct = 60, !.borrowFactorPct = 100,
                       !.elevationGroups = groups,
                       !.cumulativeBorrowRateBsf = UnitRateBsf],
                 Dec(scale[2]), 500),
      initialize(2, [DefaultReserveState EXCEPT
                       !.mintPubkey = 12, !.availableAmount = 100,
                       !.loanToValuePct = 50, !.liquidationThresholdPct = 60,
                       !.borrowFactorPct = 100, !.elevationGroups = <<0, 0>>,
                       !.cumulativeBorrowRateBsf = UnitRateBsf],
                 Dec(1), 500),
      initialize(3, [DefaultReserveState EXCEPT
                       !.mintPubkey = 13, !.availableAmount = 100,
                       !.borrowedAmountSf = 40, !.borrowFactorPct = bf,
                       !.borrowLimit = 1000, !.elevationGroups = <<1, 0>>,
                       !.cumulativeBorrowRateBsf = UnitRateBsf],
                 Dec(1), 500)>> :
      scale \in {<<0, 1>>, <<1, 2>>}, groups \in {<<0, 0>>, <<1, 0>>, <<1, 2>>},
      bf \in {100, 200} }

\* account data: two deposit slots and one borrow slot, each of them in use or
\* null, a null slot with or without an amount left in it
ObligationStates ==
  { [elevationGroup |-> eg,
     deposits |-> <<[depositReserve |-> d1[1], depositedAmount |-> d1[2]],
                    [depositReserve |-> d2[1], depositedAmount |-> d2[2]]>>,
     borrows |-> <<[borrowReserve |-> b[1], borrowedAmountSf |-> b[2],
                    cumulativeBorrowRateBsf |-> UnitRateBsf]>>] :
      eg \in {0, 1},
      d1 \in {<<NULL_PUBKEY, 0>>, <<NULL_PUBKEY, 7>>, <<1, 20>>, <<1, 40>>},
      d2 \in {<<NULL_PUBKEY, 0>>, <<2, 20>>},
      b \in {<<NULL_PUBKEY, 0>>, <<NULL_PUBKEY, 8>>, <<3, 8>>, <<3, 40>>} }

\* the action tags of ActionType that getSimulatedObligationStats handles, and
\* one that it does not
SimulatedActions ==
  {"deposit", "borrow", "repay", "withdraw", "depositAndBorrow", "repayAndWithdraw"}

ActionTypes == SimulatedActions \cup {"liquidate"}

\* the mints of reserves 1 and 3 and a mint of no reserve
SimulatedMints == {11, 13, 99}

\* a negative amount, a small one and one larger than any position
SimulatedAmounts == {-6, 5, 100}

SimulationArgs(action, mint, amount, chain, firstAmount) ==
  [action |-> action, mint |-> mint, amount |-> amount, chain |-> chain,
   firstAmount |-> firstAmount, slot |-> 0, index |-> 0]

InitObligation ==
  /\ \E rs \in ObligationReserves :
       market = [reserves |-> rs, elevationGroups |-> MarketElevationGroups,
                 referralFeeBps |-> 0]
  /\ \E ob \in ObligationStates :
       obligation = KaminoObligation(market, 7, ob, UnitRates, UnitRates)
  /\ obligation.kind = "ok"
  /\ args = SimulationArgs("none", 0, 0, 0, 0)
  /\ op = "none"
  /\ result = [kind |-> "none"]

\* the caller starts a simulation on the constructed obligation or after an
\* estimator has run on it
ObligationAtRest ==
  op \in {"none", "estimateObligationInterestRate", "getCumulativeBorrowRate"}

GetSimulatedObligationStats ==
  \E action \in ActionTypes, mint \in SimulatedMints, amount \in SimulatedAmounts :
    /\ ObligationAtRest
    /\ op' = "getSimulatedObligationStats"
    /\ args' = SimulationArgs(action, mint, amount, 0, 0)
    /\ result' = getSimulatedObligationStats(obligation, Dec(amount), action, mint, market,
                                             market.reserves)
    /\ obligation' = result'.this
    /\ UNCHANGED market

\* getSimulatedObligationStats once more with the arguments of the call before
RepeatGetSimulatedObligationStats ==
  /\ op = "getSimulatedObligationStats"
  /\ args.chain = 0
  /\ op' = "getSimulatedObligationStats"
  /\ args' = [args EXCEPT !.chain = 1]
  /\ result' = getSimulatedObligationStats(obligation, Dec(args.amount), args.action,
                                           args.mint, market, market.reserves)
  /\ obligation' = result'.this
  /\ UNCHANGED market

\* calculateSimulatedDeposit on the obligation's own statistics and deposits
CalculateSimulatedDeposit ==
  \E mint \in SimulatedMints, amount \in SimulatedAmounts :
    /\ ObligationAtRest
    /\ op' = "calculateSimulatedDeposit"
    /\ args' = SimulationArgs("deposit", mint, amount, 1, amount)
    /\ result' = calculateSimulatedDeposit(obligation, obligation.refreshedStats,
                                           obligation.deposits, Dec(amount), mint,
                                           market.reserves, market)
    /\ obligation' = [obligation EXCEPT !.refreshedStats = result'.oldStats,
                                        !.deposits = result'.oldPositions]
    /\ UNCHANGED market

\* calculateSimulatedDeposit on what the call before it returned, for the same
\* mint and the same amount or its negation
CalculateSimulatedDepositOnResult ==
  /\ op = "calculateSimulatedDeposit"
  /\ args.chain = 1
  /\ result.kind = "ok"
  /\ \E amount \in {args.amount, -args.amount} :
       /\ op' = "calculateSimulatedDeposit"
       /\ args' = SimulationArgs("deposit", args.mint, amount, 2, args.amount)
       /\ result' = calculateSimulatedDeposit(obligation, result.stats, result.positions,
                                              Dec(amount), args.mint, market.reserves, market)
  /\ UNCHANGED <<market, obligation>>

CalculateSimulatedBorrow ==
  \E mint \in SimulatedMints, amount \in SimulatedAmounts :
    /\ ObligationAtRest
    /\ op' = "calculateSimulatedBorrow"
    /\ args' = SimulationArgs("borrow", mint, amount, 1, amount)
    /\ result' = calculateSimulatedBorrow(obligation, obligation.refreshedStats,
                                          obligation.borrows, Dec(amount), mint,
                                          market.reserves)
    /\ obligation' = [obligation EXCEPT !.refreshedStats = result'.oldStats,
                                        !.borrows = result'.oldPositions]
    /\ UNCHANGED market

\* estimateObligationInterestRate for a borrow of the obligation and its reserve
EstimateObligationInterestRate ==
  \E i \in DOMAIN obligation.state.borrows, slot \in QuerySlots :
    /\ isNotNullPubkey(obligation.state.borrows[i].borrowReserve)
    /\ op' = "estimateObligationInterestRate"
    /\ args' = [SimulationArgs("none", 0, 0, 0, 0) EXCEPT !.slot = slot, !.index = i]
    /\ result' = [kind |-> "ok",
                  value |-> estimateObligationInterestRate(
                              getReserveByAddress(market,
                                obligation.state.borrows[i].borrowReserve),
                              obligation.state.borrows[i], slot)]
    /\ obligation' = [obligation EXCEPT
                        !.state.borrows[i] = borrowAfterGetCumulativeBorrowRate(@)]
    /\ UNCHANGED market

\* the static getCumulativeBorrowRate on a borrow entry of the obligation
GetCumulativeBorrowRate ==
  \E i \in DOMAIN obligation.state.borrows :
    /\ op' = "getCumulativeBorrowRate"
    /\ args' = [SimulationArgs("none", 0, 0, 0, 0) EXCEPT !.index = i]
    /\ result' = [kind |-> "ok", value |-> getCumulativeBorrowRate(obligation.state.borrows[i])]
    /\ obligation' = [obligation EXCEPT
                        !.state.borrows[i] = borrowAfterGetCumulativeBorrowRate(@)]
    /\ UNCHANGED market

\* the static getRatesForObligation on the account data of the obligation
GetRatesForObligation ==
  \E slot \in QuerySlots :
    /\ ObligationAtRest
    /\ op' = "getRatesForObligation"
    /\ args' = [SimulationArgs("none", 0, 0, 0, 0) EXCEPT !.slot = slot]
    /\ result' = [kind |-> "ok",
                  value |-> getRatesForObligation(market, obligation.state, slot)]
    /\ UNCHANGED <<market, obligation>>

LoanToValue ==
  /\ ObligationAtRest
  /\ op' = "loanToValue"
  /\ args' = SimulationArgs("none", 0, 0, 0, 0)
  /\ result' = [kind |-> "ok", value |-> loanToValue(obligation)]
  /\ UNCHANGED <<market, obligation>>

GetNumberOfPositions ==
  /\ ObligationAtRest
  /\ op' = "getNumberOfPositions"
  /\ args' = SimulationArgs("none", 0, 0, 0, 0)
  /\ result' = [kind |-> "ok", value |-> getNumberOfPositions(obligation)]
  /\ UNCHANGED <<market, obligation>>

GetElevationGroups ==
  /\ ObligationAtRest
  /\ op' = "getElevationGroups"
  /\ args' = SimulationArgs("none", 0, 0, 0, 0)
  /\ result' = [kind |-> "ok", value |-> getElevationGroups(obligation, market)]
  /\ UNCHANGED <<market, obligation>>

NextObligation ==
  \/ GetSimulatedObligationStats
  \/ RepeatGetSimulatedObligationStats
  \/ CalculateSimulatedDeposit
  \/ CalculateSimulatedDepositOnResult
  \/ CalculateSimulatedBorrow
  \/ EstimateObligationInterestRate
  \/ GetCumulativeBorrowRate
  \/ GetRatesForObligation
  \/ LoanToValue
  \/ GetNumberOfPositions
  \/ GetElevationGroups

SpecObligation == InitObligation /\ [][NextObligation]_vars

SimulationReturned == op = "getSimulatedObligationStats" /\ result.kind = "ok"

\* the amount of the position the obligation has in the reserve of the mint
\* of the call, 0 if it has none
PositionAmount(positions) ==
  LET a == reserveWithMint(market.reserves, args.mint).address
  IN IF a \in DOMAIN positions THEN positions[a].amount ELSE Dec(0)

\* C11: for a positive amount, the actions 'withdraw' and 'repayAndWithdraw'
\* return a userTotalDeposit and an amount of the deposit position that are not
\* larger than they were, and the actions 'repay' and 'repayAndWithdraw' return
\* a userTotalBorrow that is not larger than it was
C11_WithdrawAndRepayLegsAreNegative ==
  (SimulationReturned /\ args.amount > 0) =>
    /\ args.action \in {"withdraw", "repayAndWithdraw"} =>
         /\ lte(result.stats.userTotalDeposit, obligation.refreshedStats.userTotalDeposit)
         /\ lte(PositionAmount(result.deposits), PositionAmount(obligation.deposits))
    /\ args.action \in {"repay", "repayAndWithdraw"} =>
         lte(result.stats.userTotalBorrow, obligation.refreshedStats.userTotalBorrow)

\* a simulated deposit of a positive amount followed, on its result, by the
\* simulated deposit of the negated amount for the same mint
DepositThenWithdrawReturned ==
  /\ op = "calculateSimulatedDeposit"
  /\ args.chain = 2
  /\ args.firstAmount > 0
  /\ args.amount = -args.firstAmount
  /\ result.kind = "ok"

C14_SimulatedStatsAreFloored ==
  SimulationReturned =>
    /\ gte(result.stats.userTotalDeposit, Dec(0))
    /\ gte(result.stats.userTotalBorrow, Dec(0))
    /\ gte(result.stats.userTotalBorrowBorrowFactorAdjusted, Dec(0))
    /\ gte(result.stats.borrowLimit, Dec(0))
    /\ gte(result.stats.borrowLiquidationLimit, Dec(0))
    /\ \A a \in DOMAIN result.deposits :
         /\ gte(result.deposits[a].amount, Dec(0))
         /\ gte(result.deposits[a].marketValueRefreshed, Dec(0))
    /\ \A a \in DOMAIN result.borrows :
         /\ gte(result.borrows[a].amount, Dec(0))
         /\ gte(result.borrows[a].marketValueRefreshed, Dec(0))
    /\ eq(result.stats.netAccountValue,
          minus(result.stats.userTotalDeposit, result.stats.userTotalBorrow))
    /\ IF isZero(result.stats.userTotalDeposit)
         THEN eq(result.stats.loanToValue, Dec(0))
         ELSE eq(result.stats.loanToValue,
                 div(result.stats.userTotalBorrowBorrowFactorAdjusted,
                     result.stats.userTotalDeposit))

\* an oversized withdrawal under debt returned: no deposit value is left, the
\* net account value is negative and the loan-to-value is 0
C14_Witness ==
  /\ SimulationReturned
  /\ args.action = "withdraw"
  /\ args.amount = 100
  /\ isZero(result.stats.userTotalDeposit)
  /\ lt(result.stats.netAccountValue, Dec(0))
  /\ isZero(result.stats.loanToValue)

\* C15: getSimulatedObligationStats throws exactly when the action tag is not
\* one of the six, or no reserve of the supplied map has the mint, or the
\* elevationGroups of the reserve found do not contain the elevation group of
\* the obligation; with one of the six tags and an unknown mint the error is
\* the one of the reserve that is not found
C15_SimulationFailsExactlyWhen ==
  op = "getSimulatedObligationStats" =>
    LET reserve == reserveWithMint(market.reserves, args.mint)
        invalidAction == args.action \notin SimulatedActions
        unknownMint == ~isDefined(reserve)
        incompatibleGroup ==
          /\ isDefined(reserve)
          /\ \A i \in DOMAIN reserve.state.elevationGroups :
               reserve.state.elevationGroups[i] # obligation.state.elevationGroup
    IN /\ result.kind = "error" <=> (invalidAction \/ unknownMint \/ incompatibleGroup)
       /\ (~invalidAction /\ unknownMint) =>
            result.message = "No reserve found for mint"

\* a simulation on a reserve that does not list the elevation group of the
\* obligation has thrown, and so has one for a mint of no reserve
C15_Witness ==
  /\ op = "getSimulatedObligationStats"
  /\ result.kind = "error"
  /\ args.action = "depositAndBorrow"
  /\ args.mint = 11
  /\ obligation.state.elevationGroup = 0
  /\ result.message =
       "User would have to downgrade the elevation group in order to be able to deposit in this reserve"

\* C16: a call of getSimulatedObligationStats, calculateSimulatedDeposit or
\* calculateSimulatedBorrow, returning or throwing, after whatever calls came
\* before it, leaves the refreshedStats, the deposits and the borrows of the
\* obligation as they were, and getSimulatedObligationStats called again with
\* the same arguments gives the same result
C16_SimulationsLeaveTheObligationUnchanged ==
  [][op' \in {"getSimulatedObligationStats", "calculateSimulatedDeposit",
              "calculateSimulatedBorrow"} =>
       /\ obligation'.refreshedStats = obligation.refreshedStats
       /\ obligation'.deposits = obligation.deposits
       /\ obligation'.borrows = obligation.borrows
       /\ (op = "getSimulatedObligationStats" /\ args'.chain = 1) =>
            (result'.kind = result.kind /\
             (result.kind = "ok" =>
                /\ result'.stats = result.stats
                /\ result'.deposits = result.deposits
                /\ result'.borrows = result.borrows))]_vars

\* a simulation was repeated and returned statistics and positions that are
\* not those of the obligation
C16_Witness ==
  /\ SimulationReturned
  /\ args.chain = 1
  /\ result.stats.userTotalDeposit # obligation.refreshedStats.userTotalDeposit
  /\ result.deposits # obligation.deposits

(***************************************************************************)
(* SpecElevationGroups: getElevationGroupsForReserves as a pure function   *)
(* of a list of reserves                                                   *)
(***************************************************************************)
MaxReserves == 3

MaxElevationGroup == 2

\* elevationGroups arrays of two entries, 0 for an entry that is not used
ElevationGroupArrays ==
  {<<g1, g2>> : g1 \in 0 .. MaxElevationGroup, g2 \in 0 .. MaxElevationGroup}

\* the reserve at the given address with the given elevationGroups array
ReserveWithGroups(address, groups) ==
  initialize(address,
             [DefaultReserveState EXCEPT !.mintPubkey = 10 + address,
                                         !.elevationGroups = groups],
             Dec(1), 500)

InitElevationGroups ==
  /\ \E n \in 0 .. MaxReserves :
       \E arrays \in [1 .. n -> ElevationGroupArrays] :
         market = [EmptyMarket EXCEPT
                     !.reserves = [i \in 1 .. n |-> ReserveWithGroups(i, arrays[i])]]
  /\ obligation = NoObligation
  /\ args = NoArgs
  /\ op = "none"
  /\ result = [kind |-> "none"]

GetElevationGroupsForReserves ==
  /\ op = "none"
  /\ op' = "getElevationGroupsForReserves"
  /\ result' = [kind |-> "ok", value |-> getElevationGroupsForReserves(market.reserves)]
  /\ UNCHANGED <<market, obligation, args>>

NextElevationGroups == GetElevationGroupsForReserves

SpecElevationGroups == InitElevationGroups /\ [][NextElevationGroups]_vars

\* the reserve has the group among its configured elevation groups
ListsGroup(reserve, g) ==
  \E i \in DOMAIN reserve.state.elevationGroups : reserve.state.elevationGroups[i] = g

\* C17: for a group g that a reserve of the list names, and for 0,
\* getElevationGroupsForReserves(reserves) contains g exactly when g is not 0
\* and every reserve of the list has g among its elevation groups
C17_GroupsCommonToAllReserves ==
  op = "getElevationGroupsForReserves" =>
    \A g \in 0 .. MaxElevationGroup :
      (g = 0 \/ \E i \in DOMAIN market.reserves : ListsGroup(market.reserves[i], g)) =>
        ((\E k \in DOMAIN result.value : result.value[k] = g) <=>
           (g # 0 /\ \A i \in DOMAIN market.reserves : ListsGroup(market.reserves[i], g)))

\* the account data without its null slots
WithoutNullSlots(ob) ==
  [ob EXCEPT
     !.deposits = SelectSeq(ob.deposits, LAMBDA d : d.depositReserve # NULL_PUBKEY),
     !.borrows = SelectSeq(ob.borrows, LAMBDA b : b.borrowReserve # NULL_PUBKEY)]

\* the reserves the slots in use of the account data name
ReservesInUse(ob) ==
  [deposits |-> {ob.deposits[i].depositReserve : i \in DOMAIN ob.deposits} \ {NULL_PUBKEY},
   borrows |-> {ob.borrows[i].borrowReserve : i \in DOMAIN ob.borrows} \ {NULL_PUBKEY}]

\* C18: the null slots of the account data, whatever amounts they hold, are
\* skipped: the deposits and borrows maps and the statistics, the eligible
\* elevation groups among them, are those of the account data without its null
\* slots, the maps have one entry per reserve in use, getNumberOfPositions
\* counts these entries, the rate maps are computed for the reserves in use
\* only, and with null slots only there are 0 positions and loanToValue() is 0
C18_NullSlotsAreSkipped ==
  LET inUse == ReservesInUse(obligation.state)
      rebuilt == KaminoObligation(market, obligation.obligationAddress,
                                  WithoutNullSlots(obligation.state), UnitRates, UnitRates)
  IN /\ obligation.deposits = rebuilt.deposits
     /\ obligation.borrows = rebuilt.borrows
     /\ obligation.refreshedStats = rebuilt.refreshedStats
     /\ DOMAIN obligation.deposits = inUse.deposits
     /\ DOMAIN obligation.borrows = inUse.borrows
     /\ op = "getNumberOfPositions" =>
          result.value = Cardinality(inUse.deposits) + Cardinality(inUse.borrows)
     /\ op = "getElevationGroups" => result.value = getElevationGroups(rebuilt, market)
     /\ op = "getRatesForObligation" =>
          /\ DOMAIN result.value.collateralExchangeRates = inUse.deposits
          /\ DOMAIN result.value.cumulativeBorrowRates = inUse.borrows
     /\ (inUse.deposits = {} /\ inUse.borrows = {}) =>
          /\ getNumberOfPositions(obligation) = 0
          /\ op = "loanToValue" => eq(result.value, Dec(0))

\* the positions of an obligation were counted whose first deposit slot and
\* whose borrow slot are null with amounts left in them
C18_Witness ==
  /\ op = "getNumberOfPositions"
  /\ obligation.state.deposits[1] = [depositReserve |-> NULL_PUBKEY, depositedAmount |-> 7]
  /\ obligation.state.borrows[1].borrowReserve = NULL_PUBKEY
  /\ obligation.state.borrows[1].borrowedAmountSf = 8
  /\ obligation.state.deposits[2].depositReserve = 2
  /\ result.value = 1

\* C19: a call of a getter or of an estimator of the constructed obligation,
\* estimateObligationInterestRate and the static getCumulativeBorrowRate on one
\* of its borrow entries among them, leaves obligation.state as it was, the
\* order of the limbs of each borrow's cumulativeBorrowRateBsf included
C19_StateIsImmutable ==
  [][obligation'.state = obligation.state]_vars

(***************************************************************************)
(* SpecLoad: a reserve made by KaminoReserve.initialize, then load and     *)
(* setBuffer called in any order; the reserve is market.reserves[1]        *)
(***************************************************************************)
\* the snapshots the chain can hold for the reserve
LoadStates ==
  { [DefaultReserveState EXCEPT
       !.mintPubkey = 11, !.mintDecimals = decimals, !.loanToValuePct = ltv,
       !.liquidationThresholdPct = 60, !.borrowFactorPct = bf, !.borrowLimit = 1000,
       !.elevationGroups = <<0, 0>>] :
      decimals \in {0, 1}, ltv \in {0, 50}, bf \in {100, 200} }

OraclePrices == {Dec(1), Dec(2)}

\* what getAccountInfo returns
AccountInfos == {"null", "accountData"}

\* what Reserve.fetch returns
FetchedReserves == {[kind |-> "null"]} \cup {[kind |-> "account", data |-> s] : s \in LoadStates}

LoadArgs(tokenOraclePrice, accountInfo, parsedData, before) ==
  [tokenOraclePrice |-> tokenOraclePrice, accountInfo |-> accountInfo,
   parsedData |-> parsedData, before |-> before]

InitLoad ==
  /\ \E state \in LoadStates, price \in OraclePrices :
       market = [EmptyMarket EXCEPT !.reserves = <<initialize(1, state, price, 500)>>]
  /\ obligation = NoObligation
  /\ args = LoadArgs(Dec(0), "null", [kind |-> "null"], undefined)
  /\ op = "none"
  /\ result = [kind |-> "none"]

Load ==
  \E price \in OraclePrices, accountInfo \in AccountInfos, parsedData \in FetchedReserves :
    /\ op' = "load"
    /\ args' = LoadArgs(price, accountInfo, parsedData, market.reserves[1])
    /\ result' = [kind |-> load(market.reserves[1], price, accountInfo, parsedData).kind]
    /\ market' = [market EXCEPT
                    !.reserves[1] = load(market.reserves[1], price, accountInfo,
                                         parsedData).reserve]
    /\ UNCHANGED obligation

SetBuffer ==
  \E buffer \in AccountInfos :
    /\ op' = "setBuffer"
    /\ args' = LoadArgs(Dec(0), buffer, [kind |-> "null"], market.reserves[1])
    /\ result' = [kind |-> "ok"]
    /\ market' = [market EXCEPT !.reserves[1] = setBuffer(@, buffer)]
    /\ UNCHANGED obligation

NextLoad == Load \/ SetBuffer

SpecLoad == InitLoad /\ [][NextLoad]_vars

\* C20: after initialize and any calls of load, the statistics of the reserve
\* are those derived from its state, and a load that throws leaves the state,
\* the oracle price and the statistics as they were
C20_StatsFollowTheSnapshot ==
  /\ [](market.reserves[1].stats = formatReserveData(market.reserves[1].state))
  /\ [][(op' = "load" /\ result'.kind = "error") =>
          /\ market'.reserves[1].state = market.reserves[1].state
          /\ market'.reserves[1].tokenOraclePrice = market.reserves[1].tokenOraclePrice
          /\ market'.reserves[1].stats = market.reserves[1].stats]_vars

\* a load has replaced the snapshot and the price, and the statistics are not
\* those of the snapshot before
C20_Witness ==
  /\ op = "load"
  /\ result.kind = "ok"
  /\ market.reserves[1].state # args.before.state
  /\ market.reserves[1].tokenOraclePrice # args.before.tokenOraclePrice
  /\ market.reserves[1].stats # args.before.stats

(***************************************************************************)
(* SpecWithdrawalCaps: the current totals of the two daily withdrawal caps *)
(* of one reserve snapshot, read at a slot the caller supplies             *)
(***************************************************************************)
MaxCapSlot == 9

CapSnapshots ==
  {[DefaultReserveState EXCEPT
      !.lastUpdateSlot = last,
      !.depositWithdrawalCap = [configCapacity |-> 100, currentTotal |-> deposited],
      !.debtWithdrawalCap = [configCapacity |-> 100, currentTotal |-> borrowed]] :
     last \in {0, 3}, deposited \in {0, 5, 98}, borrowed \in {0, 7}}

InitWithdrawalCaps ==
  /\ \E st \in CapSnapshots :
       market = [EmptyMarket EXCEPT !.reserves = <<initialize(1, st, Dec(1), 500)>>]
  /\ obligation = NoObligation
  /\ args = NoArgs
  /\ op = "none"
  /\ result = [kind |-> "none"]

GetDepositWithdrawalCapCurrent ==
  \E slot \in 0 .. MaxCapSlot :
    /\ op' = "getDepositWithdrawalCapCurrent"
    /\ args' = [NoArgs EXCEPT !.slot = slot]
    /\ result' = [kind |-> "ok",
                  value |-> getDepositWithdrawalCapCurrent(market.reserves[1], slot)]
    /\ UNCHANGED <<market, obligation>>

GetDebtWithdrawalCapCurrent ==
  \E slot \in 0 .. MaxCapSlot :
    /\ op' = "getDebtWithdrawalCapCurrent"
    /\ args' = [NoArgs EXCEPT !.slot = slot]
    /\ result' = [kind |-> "ok",
                  value |-> getDebtWithdrawalCapCurrent(market.reserves[1], slot)]
    /\ UNCHANGED <<market, obligation>>

NextWithdrawalCaps == GetDepositWithdrawalCapCurrent \/ GetDebtWithdrawalCapCurrent

SpecWithdrawalCaps == InitWithdrawalCaps /\ [][NextWithdrawalCaps]_vars

\* the current total the claim states for a cap at the slot of the call: 0 once
\* a day of slots has passed since the last update, the stored total before
StatedCapCurrent(cap) ==
  IF args.slot - market.reserves[1].state.lastUpdateSlot >= SLOTS_PER_DAY
    THEN Dec(0) ELSE Dec(cap.currentTotal)

\* C23: getDepositWithdrawalCapCurrent(slot) and getDebtWithdrawalCapCurrent(slot)
\* are 0 once slot - lastUpdateSlot >= the slots of a day and the stored
\* currentTotal otherwise, also for slots before the last update, and they do
\* not increase when the slot advances
C23_CapsResetAfterADay ==
  LET r == market.reserves[1]
  IN /\ op = "getDepositWithdrawalCapCurrent" =>
          /\ eq(result.value, StatedCapCurrent(r.state.depositWithdrawalCap))
          /\ lte(getDepositWithdrawalCapCurrent(r, args.slot + 1), result.value)
     /\ op = "getDebtWithdrawalCapCurrent" =>
          /\ eq(result.value, StatedCapCurrent(r.state.debtWithdrawalCap))
          /\ lte(getDebtWithdrawalCapCurrent(r, args.slot + 1), result.value)

\* the interest accrued since the last update net of the fixed host fee, 0 when
\* no slot has elapsed
NetNewDebt(r, slot) ==
  IF slotsElapsedSince(r, slot) = 0
    THEN Dec(0)
    ELSE compoundInterest(r, slotsElapsedSince(r, slot), 0).netNewDebt

\* C24: getEstimatedTotalSupply(slot, referralFeeBps) is the same for every
\* referralFeeBps, and exceeds getTotalSupply() by exactly the net new debt
\* times (1 - protocolTakeRate)
C24_EstimatedSupplyIgnoresTheReferralFee ==
  op = "getEstimatedTotalSupply" =>
    LET r == market.reserves[1]
    IN eq(minus(result, getTotalSupply(r)),
          mul(NetNewDebt(r, args.slot),
                minus(Dec(1), Rat(r.state.protocolTakeRatePct, 100))))

C24_Witness ==
  /\ op = "getEstimatedTotalSupply"
  /\ args.referralFeeBps = 5000
  /\ market.reserves[1].state.protocolTakeRatePct = 50
  /\ market.reserves[1].state.hostFixedInterestRateBps = 5000
  /\ market.reserves[1].state.pendingReferrerFeesSf > 0
  /\ gt(NetNewDebt(market.reserves[1], args.slot), Dec(0))

\* ---------------------------------------------------------------------------
\* KaminoObligation.loadAll: a batch of obligations built over shared rate maps
\* ---------------------------------------------------------------------------

\* a rate map of loadAll: the PubkeyHashMap, and next to it the reserves the
\* estimator has been called for, in the order of the calls
NoRates == [map |-> NoPositions, calls |-> <<>>]

\* map.set(address, rate) after the estimator has run for the reserve
setRate(rates, address, rate) ==
  [map |-> [a \in DOMAIN rates.map \cup {address} |->
              IF a = address THEN rate ELSE rates.map[a]],
   calls |-> Append(rates.calls, address)]

\* the loop of addCollateralExchangeRatesForObligation from deposit slot i on
RECURSIVE addCollateralExchangeRatesFrom(_, _, _, _, _)
addCollateralExchangeRatesFrom(m, collateralExchangeRates, ob, slot, i) ==
  IF i > Len(ob.deposits) THEN collateralExchangeRates
  ELSE addCollateralExchangeRatesFrom(m,
         IF isNotNullPubkey(ob.deposits[i].depositReserve)
              /\ ob.deposits[i].depositReserve \notin DOMAIN collateralExchangeRates.map
           THEN setRate(collateralExchangeRates, ob.deposits[i].depositReserve,
                        getEstimatedCollateralExchangeRate(
                          getReserveByAddress(m, ob.deposits[i].depositReserve),
                          slot, m.referralFeeBps))
           ELSE collateralExchangeRates,
         ob, slot, i + 1)

\* the rates of the obligation estimated whether or not the map holds them
addCollateralExchangeRatesEstimatingAgain(m, collateralExchangeRates, ob, slot) ==
  LET again == addCollateralExchangeRatesFrom(m,
                 [map |-> NoPositions, calls |-> collateralExchangeRates.calls], ob, slot, 1)
  IN [map |-> [a \in DOMAIN collateralExchangeRates.map \cup DOMAIN again.map |->
                 IF a \in DOMAIN again.map THEN again.map[a]
                 ELSE collateralExchangeRates.map[a]],
      calls |-> again.calls]

addCollateralExchangeRatesForObligation(m, collateralExchangeRates, ob, slot) ==
  addCollateralExchangeRatesFrom(m, collateralExchangeRates, ob, slot, 1)

\* the loop of addCumulativeBorrowRatesForObligation from borrow slot i on
RECURSIVE addCumulativeBorrowRatesFrom(_, _, _, _, _)
addCumulativeBorrowRatesFrom(m, cumulativeBorrowRates, ob, slot, i) ==
  IF i > Len(ob.borrows) THEN cumulativeBorrowRates
  ELSE addCumulativeBorrowRatesFrom(m,
         IF isNotNullPubkey(ob.borrows[i].borrowReserve)
              /\ ob.borrows[i].borrowReserve \notin DOMAIN cumulativeBorrowRates.map
           THEN setRate(cumulativeBorrowRates, ob.borrows[i].borrowReserve,
                        getEstimatedCumulativeBorrowRate(
                          getReserveByAddress(m, ob.borrows[i].borrowReserve), slot))
           ELSE cumulativeBorrowRates,
         ob, slot, i + 1)

addCumulativeBorrowRatesForObligation(m, cumulativeBorrowRates, ob, slot) ==
  addCumulativeBorrowRatesFrom(m, cumulativeBorrowRates, ob, slot, 1)

addRatesForObligation(m, ob, collateralExchangeRates, cumulativeBorrowRates, slot) ==
  [collateralExchangeRates |->
     addCollateralExchangeRatesForObligation(m, collateralExchangeRates, ob, slot),
   cumulativeBorrowRates |->
     addCumulativeBorrowRatesForObligation(m, cumulativeBorrowRates, ob, slot)]

\* Obligation.fetchMultiple: one entry per address, in the order of the
\* addresses, null for an address without an account
fetchMultiple(connection, obligationAddresses) ==
  [i \in DOMAIN obligationAddresses |-> connection.accounts[obligationAddresses[i]]]

\* the loop of loadAll over the fetched obligations from entry i on
RECURSIVE addRatesForObligationsFrom(_, _, _, _, _)
addRatesForObligationsFrom(m, obligations, rates, currentSlot, i) ==
  IF i > Len(obligations) THEN rates
  ELSE addRatesForObligationsFrom(m, obligations,
         IF obligations[i].kind # "null"
           THEN addRatesForObligation(m, obligations[i].data, rates.collateralExchangeRates,
                                      rates.cumulativeBorrowRates, currentSlot)
           ELSE rates,
         currentSlot, i + 1)

\* the obligations loadAll returns once the slot, the accounts and the rates
\* are known
loadedObligations(m, obligationAddresses, obligations, rates) ==
  [i \in DOMAIN obligations |->
     IF obligations[i].kind = "null" THEN [kind |-> "null"]
     ELSE KaminoObligation(m, obligationAddresses[i], obligations[i].data,
                           rates.collateralExchangeRates.map,
                           rates.cumulativeBorrowRates.map)]

\* loadAll(kaminoMarket, obligationAddresses, slot?): slot is <<>> when the
\* caller leaves it out; what it returns, with the slot it used and the maps
\* it handed to the obligations
loadAllAtSlot(m, obligationAddresses, currentSlot, obligations) ==
  LET rates == addRatesForObligationsFrom(m, obligations,
                 [collateralExchangeRates |-> NoRates, cumulativeBorrowRates |-> NoRates],
                 currentSlot, 1)
  IN [kind |-> "ok",
      obligations |-> loadedObligations(m, obligationAddresses, obligations, rates),
      currentSlot |-> currentSlot,
      collateralExchangeRates |-> rates.collateralExchangeRates,
      cumulativeBorrowRates |-> rates.cumulativeBorrowRates]

loadAll(m, obligationAddresses, slot, connection) ==
  loadAllAtSlot(m, obligationAddresses,
                IF slot = <<>> \/ slot[1] = 0 THEN connection.slot ELSE slot[1],
                fetchMultiple(connection, obligationAddresses))

(***************************************************************************)
(* SpecLoadAll: batches of obligation addresses loaded in one call over a  *)
(* market whose connection holds an account for some of the addresses      *)
(***************************************************************************)
MaxBatch == 3

LoadAllReserves ==
  <<initialize(1, [DefaultReserveState EXCEPT
                     !.mintPubkey = 11, !.mintTotalSupply = 100,
                     !.availableAmount = 100, !.borrowedAmountSf = 400,
                     !.borrowRateCurve = FlatCurve, !.loanToValuePct = 50,
                     !.liquidationThresholdPct = 60, !.borrowFactorPct = 100,
                     !.elevationGroups = <<0, 0>>,
                     !.cumulativeBorrowRateBsf = UnitRateBsf],
               Dec(1), 500),
    initialize(2, [DefaultReserveState EXCEPT
                     !.mintPubkey = 12, !.availableAmount = 100,
                     !.loanToValuePct = 50, !.liquidationThresholdPct = 60,
                     !.borrowFactorPct = 100, !.elevationGroups = <<0, 0>>,
                     !.cumulativeBorrowRateBsf = UnitRateBsf],
               Dec(1), 500),
    initialize(3, [DefaultReserveState EXCEPT
                     !.mintPubkey = 13, !.availableAmount = 100,
                     !.borrowedAmountSf = 40, !.borrowFactorPct = 100,
                     !.borrowLimit = 1000, !.elevationGroups = <<0, 0>>,
                     !.cumulativeBorrowRateBsf = UnitRateBsf],
               Dec(1), 500)>>

\* the addresses a batch is drawn from
ObligationAddresses == {7, 8, 9}

\* what the connection holds at an address: no account, or account data with
\* one deposit, or with two deposits and a borrow
FetchedObligations ==
  {[kind |-> "null"]} \cup
  {[kind |-> "account",
    data |-> [elevationGroup |-> 0,
              deposits |-> <<[depositReserve |-> 1, depositedAmount |-> 20],
                             [depositReserve |-> p[1], depositedAmount |-> p[2]]>>,
              borrows |-> <<[borrowReserve |-> p[3], borrowedAmountSf |-> p[4],
                             cumulativeBorrowRateBsf |-> UnitRateBsf]>>]] :
     p \in {<<NULL_PUBKEY, 0, NULL_PUBKEY, 0>>, <<2, 20, 3, 8>>}}

\* the batches of at most MaxBatch addresses, an address possibly repeated
Batches == UNION {[1 .. n -> ObligationAddresses] : n \in 0 .. MaxBatch}

InitLoadAll ==
  /\ \E accounts \in [ObligationAddresses -> FetchedObligations], slot \in {3, 6} :
       market = [reserves |-> LoadAllReserves, elevationGroups |-> MarketElevationGroups,
                 referralFeeBps |-> 0,
                 connection |-> [slot |-> slot, accounts |-> accounts]]
  /\ obligation = NoObligation
  /\ args = [obligationAddresses |-> <<>>, slot |-> <<>>]
  /\ op = "none"
  /\ result = [kind |-> "none"]

\* loadAll reads the market and the connection and leaves them as they are: a
\* second call would find what the first one found
LoadAll ==
  \E obligationAddresses \in Batches, slot \in {<<>>, <<0>>, <<5>>} :
    /\ op = "none"
    /\ op' = "loadAll"
    /\ args' = [obligationAddresses |-> obligationAddresses, slot |-> slot]
    /\ result' = loadAll(market, obligationAddresses, slot, market.connection)
    /\ UNCHANGED <<market, obligation>>

NextLoadAll == LoadAll

SpecLoadAll == InitLoadAll /\ [][NextLoadAll]_vars

\* the number of entries of a sequence that are x
Occurrences(seq, x) == Cardinality({i \in DOMAIN seq : seq[i] = x})

\* C21: during one loadAll the estimated collateral exchange rate and the
\* estimated cumulative borrow rate are each computed at most once per reserve
\* address; every constructed obligation is built from the rates of one slot;
\* the result has the length and the order of the addresses, with null exactly
\* where no account was found
C21_LoadAllSharesTheRates ==
  op = "loadAll" =>
    /\ \A a \in 1 .. 3 :
         /\ Occurrences(result.collateralExchangeRates.calls, a) <= 1
         /\ Occurrences(result.cumulativeBorrowRates.calls, a) <= 1
    /\ \A a \in DOMAIN result.collateralExchangeRates.map :
         result.collateralExchangeRates.map[a] =
           getEstimatedCollateralExchangeRate(getReserveByAddress(market, a),
                                              result.currentSlot, market.referralFeeBps)
    /\ \A a \in DOMAIN result.cumulativeBorrowRates.map :
         result.cumulativeBorrowRates.map[a] =
           getEstimatedCumulativeBorrowRate(getReserveByAddress(market, a),
                                            result.currentSlot)
    /\ Len(result.obligations) = Len(args.obligationAddresses)
    /\ \A i \in DOMAIN args.obligationAddresses :
         LET account == market.connection.accounts[args.obligationAddresses[i]]
         IN IF account.kind = "null"
              THEN result.obligations[i].kind = "null"
              ELSE result.obligations[i] =
                     KaminoObligation(market, args.obligationAddresses[i], account.data,
                                      result.collateralExchangeRates.map,
                                      result.cumulativeBorrowRates.map)

\* a batch of three with a missing account in the middle and the same
\* reserves behind the first and the last obligation
C21_Witness ==
  /\ op = "loadAll"
  /\ Len(args.obligationAddresses) = 3
  /\ result.obligations[1].kind = "ok"
  /\ result.obligations[2].kind = "null"
  /\ result.obligations[3].kind = "ok"
  /\ args.obligationAddresses[1] # args.obligationAddresses[3]
  /\ DOMAIN result.obligations[1].deposits = {1, 2}
  /\ DOMAIN result.obligations[3].deposits = {1, 2}
  /\ DOMAIN result.obligations[1].borrows = {3}
  /\ DOMAIN result.obligations[3].borrows = {3}
  /\ result.collateralExchangeRates.map[1] # Dec(1)

\* ---------------------------------------------------------------------------
\* KaminoReserve.getMaxBorrowAmountWithCollReserve
\* ---------------------------------------------------------------------------

\* the largest u64 (scaled as the limbs are)
U64_MAX == Pow2(4 * LIMB_BITS) - 1

getBorrowLimitOutsideElevationGroup(r) == Dec(r.state.borrowLimitOutsideElevationGroup)

getBorrowedAmountOutsideElevationGroup(r) == Dec(r.state.borrowedAmountOutsideElevationGroup)

\* the arrays of the account are 0-based, the sequences of the model 1-based
getBorrowLimitAgainstCollateralInElevationGroup(r, elevationGroupIndex) ==
  Dec(r.state.borrowLimitAgainstThisCollateralInElevationGroup[elevationGroupIndex + 1])

getBorrowedAmountAgainstCollateralInElevationGroup(r, elevationGroupIndex) ==
  Dec(r.state.borrowedAmountsAgainstThisReserveInElevationGroups[elevationGroupIndex + 1])

\* groups.find((group) => group.id === id)
findElevationGroup(groups, id) ==
  groups[CHOOSE i \in DOMAIN groups :
           groups[i].id = id /\ \A j \in DOMAIN groups : groups[j].id = id => i <= j]

\* the groups of the collateral reserve that the debt reserve lists too and
\* whose debt reserve it is, in the order of the collateral reserve's array
RECURSIVE commonElevationGroupsFrom(_, _, _, _)
commonElevationGroupsFrom(r, groups, groupsColl, i) ==
  IF i > Len(groupsColl) THEN <<>>
  ELSE (IF includes(r.state.elevationGroups, groupsColl[i]) /\ groupsColl[i] # 0
             /\ groups[groupsColl[i]].debtReserve = r.address
          THEN <<groupsColl[i]>> ELSE <<>>)
       \o commonElevationGroupsFrom(r, groups, groupsColl, i + 1)

\* commonElevationGroups.reduce: the later group unless the earlier one has the
\* strictly larger ltvPct
RECURSIVE groupWithMaxLtv(_, _, _)
groupWithMaxLtv(groups, prev, rest) ==
  IF rest = <<>> THEN prev
  ELSE groupWithMaxLtv(groups,
         IF findElevationGroup(groups, prev).ltvPct > findElevationGroup(groups, Head(rest)).ltvPct
           THEN prev ELSE Head(rest),
         Tail(rest))

\* eModeGroup of getMaxBorrowAmountWithCollReserve
eModeGroupWithCollReserve(r, m, collReserve) ==
  LET common == commonElevationGroupsFrom(r, m.elevationGroups,
                                          collReserve.state.elevationGroups, 1)
  IN IF common = <<>> THEN 0
     ELSE findElevationGroup(m.elevationGroups,
                             groupWithMaxLtv(m.elevationGroups, Head(common), Tail(common))).id

\* maxBorrowAmount after the available liquidity, the reserve borrow limit and
\* the debt withdrawal cap
maxBorrowAmountBeforeFee(r, slot) ==
  IF gt(getDebtWithdrawalCapCapacity(r), Dec(0))
    THEN DecimalMin(<<DecimalMin(<<getLiquidityAvailableAmount(r),
                                   minus(r.stats.reserveBorrowLimit, getBorrowedAmount(r))>>),
                      minus(getDebtWithdrawalCapCapacity(r),
                            getDebtWithdrawalCapCurrent(r, slot))>>)
    ELSE DecimalMin(<<getLiquidityAvailableAmount(r),
                      minus(r.stats.reserveBorrowLimit, getBorrowedAmount(r))>>)

\* maxBorrowAmount net of the inclusive origination fee
maxBorrowAmountAfterFee(r, maxBorrowAmount) ==
  minus(maxBorrowAmount,
        mul(maxBorrowAmount, div(getBorrowFee(r), plus(getBorrowFee(r), Dec(1)))))

\* borrowLimitDependentOnElevationGroup
borrowLimitDependentOnElevationGroup(r, eModeGroup) ==
  IF ~(includes(r.state.elevationGroups, eModeGroup) /\ eModeGroup # 0)
    THEN minus(getBorrowLimitOutsideElevationGroup(r),
               getBorrowedAmountOutsideElevationGroup(r))
    ELSE DecimalMax(<<Dec(0),
           DecimalMin(<<minus(getBorrowLimitAgainstCollateralInElevationGroup(r, eModeGroup - 1),
                              getBorrowedAmountAgainstCollateralInElevationGroup(r, eModeGroup - 1)),
                        Dec(U64_MAX)>>)>>)

\* the function from the utilization check on, the ratio and its limit given
maxBorrowAmountWithLimits(r, maxBorrowAmount, utilizationRatioLimit, currentUtilizationRatio, groupLimit) ==
  IF gt(utilizationRatioLimit, Dec(0)) /\ gt(currentUtilizationRatio, utilizationRatioLimit)
    THEN Dec(0)
  ELSE IF gt(utilizationRatioLimit, Dec(0)) /\ lt(currentUtilizationRatio, utilizationRatioLimit)
    THEN DecimalMax(<<Dec(0),
           DecimalMin(<<DecimalMin(<<maxBorrowAmount,
                                     mul(minus(utilizationRatioLimit, currentUtilizationRatio),
                                         getTotalSupply(r))>>),
                        groupLimit>>)>>)
  ELSE DecimalMax(<<Dec(0), DecimalMin(<<maxBorrowAmount, groupLimit>>)>>)

getMaxBorrowAmountWithCollReserve(r, m, collReserve, slot) ==
  maxBorrowAmountWithLimits(r,
    maxBorrowAmountAfterFee(r, maxBorrowAmountBeforeFee(r, slot)),
    Rat(r.state.utilizationLimitBlockBorrowingAbove, 100),
    calculateUtilizationRatio(r),
    borrowLimitDependentOnElevationGroup(r, eModeGroupWithCollReserve(r, m, collReserve)))

(***************************************************************************)
(* SpecMaxBorrowWithColl: the largest borrow from a debt reserve against a *)
(* collateral reserve, for snapshots that make each limit the binding one  *)
(***************************************************************************)
\* two elevation groups with the debt reserve of the specification
TwoElevationGroups ==
  <<[id |-> 1, ltvPct |-> 80, liquidationThresholdPct |-> 90, debtReserve |-> 3],
    [id |-> 2, ltvPct |-> 90, liquidationThresholdPct |-> 95, debtReserve |-> 3]>>

\* debt reserves with a supply of 16: utilization 1/4, 1/2 or 3/4
DebtReserveSnapshots ==
  {[DefaultReserveState EXCEPT
      !.mintPubkey = 13, !.availableAmount = 16 - borrowed,
      !.borrowedAmountSf = borrowed * Pow2(FRACTION_BITS),
      !.borrowLimit = limit, !.borrowFeeSf = fee,
      !.utilizationLimitBlockBorrowingAbove = utilizationLimit,
      !.debtWithdrawalCap = [configCapacity |-> cap[1], currentTotal |-> cap[2]],
      !.elevationGroups = groups,
      !.borrowLimitOutsideElevationGroup = outside,
      !.borrowedAmountOutsideElevationGroup = 1,
      !.borrowLimitAgainstThisCollateralInElevationGroup = <<inside, 1000>>,
      !.borrowedAmountsAgainstThisReserveInElevationGroups = <<1, 0>>] :
     borrowed \in {4, 8, 12}, limit \in {10, 1000}, fee \in {0, Pow2(FRACTION_BITS)},
     utilizationLimit \in {0, 50}, cap \in {<<0, 0>>, <<0, 5>>, <<6, 5>>, <<6, 9>>},
     groups \in {<<0, 0>>, <<1, 2>>}, outside \in {0, 3, 1000}, inside \in {2, 1000}}

CollReserveSnapshots ==
  {[DefaultReserveState EXCEPT
      !.mintPubkey = 11, !.availableAmount = 100, !.elevationGroups = groups,
      !.borrowLimitAgainstThisCollateralInElevationGroup = <<1000, 1000>>,
      !.borrowedAmountsAgainstThisReserveInElevationGroups = <<0, 0>>] :
     groups \in {<<0, 0>>, <<1, 0>>, <<2, 1>>}}

InitMaxBorrowWithColl ==
  /\ \E coll \in CollReserveSnapshots, debt \in DebtReserveSnapshots :
       market = [reserves |-> <<initialize(1, coll, Dec(1), 500),
                                initialize(3, debt, Dec(1), 500)>>,
                 elevationGroups |-> TwoElevationGroups, referralFeeBps |-> 0]
  /\ obligation = NoObligation
  /\ args = NoArgs
  /\ op = "none"
  /\ result = [kind |-> "none"]

GetMaxBorrowAmountWithCollReserve ==
  \E slot \in QuerySlots :
    /\ op = "none"
    /\ op' = "getMaxBorrowAmountWithCollReserve"
    /\ args' = [NoArgs EXCEPT !.slot = slot]
    /\ result' = [kind |-> "ok",
                  value |-> getMaxBorrowAmountWithCollReserve(market.reserves[2], market,
                                                              market.reserves[1], slot)]
    /\ UNCHANGED <<market, obligation>>

NextMaxBorrowWithColl == GetMaxBorrowAmountWithCollReserve

SpecMaxBorrowWithColl == InitMaxBorrowWithColl /\ [][NextMaxBorrowWithColl]_vars

\* x is at most max(0, bound)
AtMostFloored(x, bound) == lte(x, DecimalMax(<<Dec(0), bound>>))

\* C22: the result of getMaxBorrowAmountWithCollReserve is at least 0, at most
\* the available liquidity, at most what is left of the reserve borrow limit,
\* at most what is left of the debt withdrawal cap when its capacity is above
\* 0, at most (limit - utilization) x total supply when a utilization limit is
\* set and 0 when the utilization exceeds it, and at most what is left of the
\* limit of the active elevation group, or of the limit outside elevation
\* groups when none is active
C22_MaxBorrowRespectsEveryLimit ==
  op = "getMaxBorrowAmountWithCollReserve" =>
    LET r == market.reserves[2]
        eModeGroup == eModeGroupWithCollReserve(r, market, market.reserves[1])
        utilizationRatioLimit == Rat(r.state.utilizationLimitBlockBorrowingAbove, 100)
    IN /\ gte(result.value, Dec(0))
       /\ lte(result.value, getLiquidityAvailableAmount(r))
       /\ AtMostFloored(result.value,
                        minus(r.stats.reserveBorrowLimit, getBorrowedAmount(r)))
       /\ gt(getDebtWithdrawalCapCapacity(r), Dec(0)) =>
            AtMostFloored(result.value,
                          minus(getDebtWithdrawalCapCapacity(r),
                                getDebtWithdrawalCapCurrent(r, args.slot)))
       /\ gt(utilizationRatioLimit, Dec(0)) =>
            /\ lte(result.value,
                   mul(DecimalMax(<<Dec(0), minus(utilizationRatioLimit,
                                                  calculateUtilizationRatio(r))>>),
                       getTotalSupply(r)))
            /\ gt(calculateUtilizationRatio(r), utilizationRatioLimit) =>
                 eq(result.value, Dec(0))
       /\ IF includes(r.state.elevationGroups, eModeGroup) /\ eModeGroup # 0
            THEN AtMostFloored(result.value,
                   minus(getBorrowLimitAgainstCollateralInElevationGroup(r, eModeGroup - 1),
                         getBorrowedAmountAgainstCollateralInElevationGroup(r, eModeGroup - 1)))
            ELSE AtMostFloored(result.value,
                   minus(getBorrowLimitOutsideElevationGroup(r),
                         getBorrowedAmountOutsideElevationGroup(r)))

\* C25: for every reserve snapshot with debt, a host fixed interest rate
\* included, and every slot, the estimated cumulative borrow rate over the
\* stored one equals the estimated total borrow over the stored borrowed amount
C25_RateAndDebtGrowAlike ==
  (op = "getEstimatedCumulativeBorrowRate"
     /\ gt(getBorrowedAmount(market.reserves[1]), Dec(0))) =>
    eq(div(result, reserveCumulativeBorrowRate(market.reserves[1])),
       div(getEstimatedDebtAndSupply(market.reserves[1], args.slot,
                                     args.referralFeeBps).totalBorrow,
           getBorrowedAmount(market.reserves[1])))

(***************************************************************************)
(* SpecConstruct: obligations constructed from account data in which two   *)
(* slots may hold the same reserve                                         *)
(***************************************************************************)
\* account data: two deposit slots and two borrow slots
ConstructStates ==
  { [elevationGroup |-> eg,
     deposits |-> <<[depositReserve |-> d1[1], depositedAmount |-> d1[2]],
                    [depositReserve |-> d2[1], depositedAmount |-> d2[2]]>>,
     borrows |-> <<[borrowReserve |-> b1[1], borrowedAmountSf |-> b1[2],
                    cumulativeBorrowRateBsf |-> <<Pow2(FRACTION_BITS), 0, 0, 0>>],
                   [borrowReserve |-> b2[1], borrowedAmountSf |-> b2[2],
                    cumulativeBorrowRateBsf |-> <<Pow2(FRACTION_BITS), 0, 0, 0>>]>>] :
      eg \in {0, 1},
      d1 \in {<<NULL_PUBKEY, 0>>, <<1, 20>>, <<1, 40>>, <<2, 20>>},
      d2 \in {<<NULL_PUBKEY, 0>>, <<1, 8>>, <<2, 20>>},
      b1 \in {<<NULL_PUBKEY, 0>>, <<3, 8>>},
      b2 \in {<<NULL_PUBKEY, 0>>, <<3, 8>>, <<3, 40>>} }

InitConstruct ==
  /\ \E rs \in ObligationReserves :
       market = [reserves |-> rs, elevationGroups |-> MarketElevationGroups,
                 referralFeeBps |-> 0]
  /\ obligation = NoObligation
  /\ args = NoArgs
  /\ op = "none"
  /\ result = [kind |-> "none"]

\* new KaminoObligation(market, address, state, rates, rates)
Construct ==
  \E ob \in ConstructStates :
    /\ op = "none"
    /\ op' = "constructor"
    /\ obligation' = KaminoObligation(market, 7, ob, UnitRates, UnitRates)
    /\ args' = [NoArgs EXCEPT !.slot = 0]
    /\ result' = [kind |-> "ok", account |-> ob]
    /\ UNCHANGED market

NextConstruct == Construct

SpecConstruct == InitConstruct /\ [][NextConstruct]_vars

\* the sum of marketValueRefreshed over the positions of a map
RECURSIVE MarketValueOf(_, _)
MarketValueOf(positions, addresses) ==
  IF addresses = {} THEN Dec(0)
  ELSE LET a == CHOOSE x \in addresses : TRUE
       IN plus(positions[a].marketValueRefreshed,
               MarketValueOf(positions, addresses \ {a}))

\* C26: for every constructed obligation, two slots with the same reserve
\* included, userTotalDeposit is the sum of marketValueRefreshed over the
\* deposits map, userTotalBorrow the sum over the borrows map, and each map
\* holds one position per distinct reserve of the slots that are not null
C26_TotalsAreTheSumsOverTheMaps ==
  (op = "constructor" /\ obligation.kind = "ok") =>
    /\ eq(obligation.refreshedStats.userTotalDeposit,
          MarketValueOf(obligation.deposits, DOMAIN obligation.deposits))
    /\ eq(obligation.refreshedStats.userTotalBorrow,
          MarketValueOf(obligation.borrows, DOMAIN obligation.borrows))
    /\ DOMAIN obligation.deposits =
         {result.account.deposits[i].depositReserve : i \in DOMAIN result.account.deposits}
           \ {NULL_PUBKEY}
    /\ DOMAIN obligation.borrows =
         {result.account.borrows[i].borrowReserve : i \in DOMAIN result.account.borrows}
           \ {NULL_PUBKEY}

\* C27: the statistics getSimulatedObligationStats returns are consistent with
\* each other for every action: borrowUtilization is the returned
\* userTotalBorrowBorrowFactorAdjusted over the returned borrowLimit, and
\* liquidationLtv the returned borrowLiquidationLimit over the returned
\* userTotalDeposit, 0 for a deposit of 0
C27_SimulatedStatsAreConsistent ==
  (op = "getSimulatedObligationStats" /\ result.kind = "ok") =>
    /\ result.stats.borrowUtilization =
         div(result.stats.userTotalBorrowBorrowFactorAdjusted, result.stats.borrowLimit)
    /\ result.stats.liquidationLtv =
         (IF isZero(result.stats.userTotalDeposit) THEN Dec(0)
          ELSE div(result.stats.borrowLiquidationLimit, result.stats.userTotalDeposit))

\* what getMaxBorrowAmount returns when the remaining borrow power is divided
\* by the given borrow factor, its other limits as they are
MaxBorrowAmountAtFactor(o, reserve, slot, borrowFactor) ==
  LET power ==
        mul(div(div(minus(o.refreshedStats.borrowLimit,
                          o.refreshedStats.userTotalBorrowBorrowFactorAdjusted),
                    borrowFactor),
                getOracleMarketPrice(reserve)),
            getMintFactor(reserve))
      capRemained ==
        IF reserve.state.disableUsageAsCollOutsideEmode = 1
             /\ ~(includes(reserve.state.elevationGroups, o.state.elevationGroup)
                    /\ o.state.elevationGroup # 0)
          THEN Dec(0)
          ELSE minus(reserve.stats.reserveBorrowLimit, getBorrowedAmount(reserve))
      uncapped == DecimalMin(<<power, getLiquidityAvailableAmount(reserve), capRemained>>)
      capped ==
        IF gt(getDebtWithdrawalCapCapacity(reserve), Dec(0))
          THEN DecimalMin(<<uncapped,
                            minus(getDebtWithdrawalCapCapacity(reserve),
                                  getDebtWithdrawalCapCurrent(reserve, slot))>>)
          ELSE uncapped
  IN DecimalMax(<<Dec(0),
       minus(capped, mul(capped, div(getBorrowFee(reserve),
                                     plus(getBorrowFee(reserve), Dec(1)))))>>)

\* C28: getMaxBorrowAmount divides the remaining borrow power by the borrow
\* factor that getBorrowFactorForReserve and calculateSimulatedBorrow apply, 1
\* for an obligation in an elevation group and borrowFactorPct / 100 otherwise,
\* also when the reserve does not list the obligation's elevation group
C28_OneBorrowFactor ==
  BorrowReturned =>
    result.value =
      MaxBorrowAmountAtFactor(obligation, getReserveByMint(market, args.mint), args.slot,
        getBorrowFactorForReserve(getReserveByMint(market, args.mint),
                                  obligation.state.elevationGroup))

\* C29: for an obligation with elevationGroup 0, the simulation of a deposit,
\* withdraw, borrow or repay on a reserve found for the mint returns
\* statistics, whatever the elevationGroups array of the reserve holds
C29_NoDowngradeFromGroupZero ==
  (op = "getSimulatedObligationStats"
     /\ obligation.state.elevationGroup = 0
     /\ args.action \in {"deposit", "withdraw", "borrow", "repay"}
     /\ isDefined(reserveWithMint(market.reserves, args.mint))) =>
    result.kind = "ok"

(***************************************************************************)
(* SpecLimbs: one array of limbs decoded as a cumulative borrow rate by    *)
(* the reserve and by the obligation                                       *)
(***************************************************************************)
\* limbs below 2^LIMB_BITS: none set, the lowest bit, the rate 1, all bits
LimbValues == {0, 1, Pow2(FRACTION_BITS), Pow2(LIMB_BITS) - 1}

InitLimbs ==
  /\ \E limbs \in [1 .. 4 -> LimbValues] :
       /\ market = [EmptyMarket EXCEPT !.reserves =
            <<initialize(1, [DefaultReserveState EXCEPT !.cumulativeBorrowRateBsf = limbs],
                         Dec(1), 500)>>]
       /\ args = [borrow |-> [borrowReserve |-> 1, borrowedAmountSf |-> 0,
                              cumulativeBorrowRateBsf |-> limbs]]
  /\ obligation = NoObligation
  /\ op = "none"
  /\ result = [kind |-> "none"]

\* reserve.getCumulativeBorrowRate()
ReserveGetCumulativeBorrowRate ==
  /\ op' = "KaminoReserve.getCumulativeBorrowRate"
  /\ result' = [kind |-> "ok", value |-> reserveCumulativeBorrowRate(market.reserves[1])]
  /\ UNCHANGED <<market, obligation, args>>

\* KaminoObligation.getCumulativeBorrowRate(borrow), which leaves the limbs of
\* the borrow reversed
ObligationGetCumulativeBorrowRate ==
  /\ op' = "KaminoObligation.getCumulativeBorrowRate"
  /\ result' = [kind |-> "ok", value |-> getCumulativeBorrowRate(args.borrow)]
  /\ args' = [borrow |-> borrowAfterGetCumulativeBorrowRate(args.borrow)]
  /\ UNCHANGED <<market, obligation>>

NextLimbs == ReserveGetCumulativeBorrowRate \/ ObligationGetCumulativeBorrowRate

SpecLimbs == InitLimbs /\ [][NextLimbs]_vars

\* the reduction 'add, then shift by the width of a limb' over the limbs from
\* the most to the least significant
RECURSIVE AddThenShiftFrom(_, _, _)
AddThenShiftFrom(limbs, i, acc) ==
  IF i = 0 THEN acc
  ELSE AddThenShiftFrom(limbs, i - 1, (acc + limbs[i]) \div Pow2(LIMB_BITS))

\* C30: for every array of limbs the decoding of the reserve and the decoding
\* of the obligation return the same value, the reduction 'add then shift'
\* from the most to the least significant limb, and that value is not 0 when
\* a limb is not 0
C30_BothDecodingsAgree ==
  op \in {"KaminoReserve.getCumulativeBorrowRate",
          "KaminoObligation.getCumulativeBorrowRate"} =>
    LET limbs == market.reserves[1].state.cumulativeBorrowRateBsf
    IN /\ result.value = FractionToDecimal(AddThenShiftFrom(limbs, Len(limbs), 0))
       /\ (\E i \in DOMAIN limbs : limbs[i] # 0) => ~isZero(result.value)
       /\ reserveCumulativeBorrowRate(market.reserves[1]) =
            getCumulativeBorrowRate([cumulativeBorrowRateBsf |-> limbs])

====
